---- MODULE Spec2Model ----
(***************************************************************************)
(* Model of the invariant DAG execution engine: graph resolver, parameter  *)
(* resolution, manifest fingerprinting, artifact stores and the executor.  *)
(***************************************************************************)
EXTENDS Integers, Sequences, FiniteSets, TLC

VARIABLES graph, context, useRegistry, store, faults, pc, run, order,
          sorted_nodes, idx, artifacts_by_node, err, events,
          gdeps, gctx, gphase, gcycle, gsort, gvalid, giter,
          last, mem, disk, registry, call

vars == <<graph, context, useRegistry, store, faults, pc, run, order,
          sorted_nodes, idx, artifacts_by_node, err, events,
          gdeps, gctx, gphase, gcycle, gsort, gvalid, giter, last, mem,
          disk, registry, call>>

execVars == <<graph, context, useRegistry, store, faults, pc, run, order,
              sorted_nodes, idx, artifacts_by_node, err, events>>

graphVars == <<gdeps, gctx, gphase, gcycle, gsort, gvalid, giter>>

storeVars == <<last, mem, disk, registry, call>>

(***************************************************************************)
(* Bounds of the model.                                                    *)
(***************************************************************************)
MaxRuns == 2
MaxFaults == 1

(***************************************************************************)
(* Cacheable value universe (a bounded slice of it).  Every value is a     *)
(* record [t, i, s]: the Python type, an integer payload, a text payload.  *)
(***************************************************************************)
NoneV == [t |-> "none", i |-> 0, s |-> ""]
IntV(n) == [t |-> "int", i |-> n, s |-> ""]
BoolV(b) == [t |-> "bool", i |-> IF b THEN 1 ELSE 0, s |-> ""]
StrV(x) == [t |-> "str", i |-> 0, s |-> x]
FloatV == [t |-> "float", i |-> 15, s |-> ""]
BytesV(x) == [t |-> "bytes", i |-> 0, s |-> x]
IntegerV(n) == [t |-> "icac", i |-> n, s |-> ""]
DecimalV(x) == [t |-> "decimal", i |-> 0, s |-> x]
(* An int near the ends of the signed 64-bit range: base + off, where base *)
(* is "2^63" or "-2^63".  IntV(n) is the case of no base.                  *)
BigIntV(base, off) == [t |-> "int", i |-> off, s |-> base]
(* Containers: elems is the sequence of a list or tuple, m the mapping of  *)
(* a dict (keys are strings).                                              *)
ListV(elems) == [t |-> "list", i |-> 0, s |-> "", elems |-> elems]
TupleV(elems) == [t |-> "tuple", i |-> 0, s |-> "", elems |-> elems]
DictV(m) == [t |-> "dict", i |-> 0, s |-> "", m |-> m]

(* str(int): the decimal digits of an integer. *)
Digit(d) ==
  CASE d = 0 -> "0" [] d = 1 -> "1" [] d = 2 -> "2" [] d = 3 -> "3"
    [] d = 4 -> "4" [] d = 5 -> "5" [] d = 6 -> "6" [] d = 7 -> "7"
    [] d = 8 -> "8" [] d = 9 -> "9"

RECURSIVE NatToStr(_)
NatToStr(n) == IF n < 10 THEN Digit(n) ELSE NatToStr(n \div 10) \o Digit(n % 10)

IntToStr(n) == IF n < 0 THEN "-" \o NatToStr(0 - n) ELSE NatToStr(n)

(* ord() of the one-character byte strings of the model. *)
ByteOrd(c) == CASE c = "1" -> 49 [] c = "a" -> 97 [] OTHER -> 63

RECURSIVE is_cacheable(_)
is_cacheable(v) ==
  CASE v.t = "none" -> TRUE
    [] v.t = "icac" -> TRUE
    [] v.t \in {"int", "str", "bool"} -> TRUE
    [] v.t = "decimal" -> TRUE
    [] v.t = "float" -> FALSE
    [] v.t = "bytes" -> FALSE
    [] v.t = "dict" -> \A k \in DOMAIN v.m : is_cacheable(v.m[k])
    [] v.t \in {"list", "tuple"} -> \A k \in DOMAIN v.elems : is_cacheable(v.elems[k])
    [] OTHER -> FALSE

(***************************************************************************)
(* Fingerprinting.  SHA-256 is taken to be injective, so a digest is       *)
(* modelled by the bytes fed to the hasher: a leaf feeds a text, a         *)
(* container feeds the concatenation of its children's 64-character hex    *)
(* digests, modelled as the sequence of the children's digests.  The       *)
(* strings of the model are short, so no text is itself such a             *)
(* concatenation (except the empty one).                                   *)
(***************************************************************************)
Leaf(x) == [s |-> x, kids |-> <<>>]
Concat(ks) == [s |-> "", kids |-> ks]

(* Manifest keys of the model, in the order sorted() puts them. *)
NameOrder == <<"a", "b", "n1", "n2", "n3", "source", "value", "x">>
ParamNames == {NameOrder[k] : k \in 1..Len(NameOrder)}

sorted_keys(m) == SelectSeq(NameOrder, LAMBDA k : k \in DOMAIN m)

(* Whether hash_value returns instead of raising TypeError. *)
RECURSIVE hashable(_)
hashable(v) ==
  CASE v.t \in {"none", "icac", "str", "int", "bool", "bytes", "decimal"} -> TRUE
    [] v.t = "dict" -> \A k \in DOMAIN v.m : hashable(v.m[k])
    [] v.t \in {"list", "tuple"} -> \A k \in DOMAIN v.elems : hashable(v.elems[k])
    [] OTHER -> FALSE

RECURSIVE hash_value(_)
RECURSIVE hash_elems(_, _)
RECURSIVE hash_pairs(_, _)

hash_elems(elems, k) ==
  IF k > Len(elems) THEN <<>>
  ELSE <<hash_value(elems[k])>> \o hash_elems(elems, k + 1)

hash_pairs(m, ks) ==
  IF ks = <<>> THEN <<>>
  ELSE <<Leaf(Head(ks)), hash_value(m[Head(ks)])>> \o hash_pairs(m, Tail(ks))

hash_value(v) ==
  CASE v.t = "none" -> Leaf("None")
    [] v.t = "icac" -> Leaf(IntToStr(v.i))
    [] v.t = "str" -> Leaf(v.s)
    [] v.t = "int" -> Leaf(IntToStr(v.i))
    [] v.t = "bool" -> Leaf(IF v.i = 1 THEN "True" ELSE "False")
    [] v.t = "decimal" -> Leaf(v.s)
    [] v.t = "dict" -> Concat(hash_pairs(v.m, sorted_keys(v.m)))
    [] v.t \in {"list", "tuple"} -> Concat(hash_elems(v.elems, 1))
    [] v.t = "bytes" -> Concat(<<Leaf(IntToStr(ByteOrd(v.s)))>>)

RECURSIVE FeedItems(_, _)
FeedItems(m, ks) ==
  IF ks = <<>> THEN <<>>
  ELSE <<Leaf(Head(ks)), hash_value(m[Head(ks)])>> \o FeedItems(m, Tail(ks))

manifest_hashable(m) == \A k \in DOMAIN m : hashable(m[k])

hash_manifest(m) == Concat(FeedItems(m, sorted_keys(m)))

(***************************************************************************)
(* Codec (store/codec.py).  A byte stream is a sequence of tokens: a       *)
(* four-byte type tag, a length, a run of text bytes, one byte, or the     *)
(* eight bytes of an int, held as four 16-bit limbs, most significant      *)
(* first.  ICacheable values are left out of this slice of the codec.      *)
(***************************************************************************)
Tok(k, x, n, w) == [k |-> k, s |-> x, n |-> n, w |-> w]
Tag(x) == Tok("tag", x, 0, <<>>)
Length(n) == Tok("len", "", n, <<>>)
Text(x) == Tok("text", x, 0, <<>>)
Byte(n) == Tok("byte", "", n, <<>>)
Int64(w) == Tok("i64", "", 0, w)
(* the bytes of a text: none for the empty text *)
TextRun(x) == IF x = "" THEN <<>> ELSE <<Text(x)>>

Limb == 65536

(* len(x.encode("utf-8")) for the texts of the model *)
Utf8Len(x) == CASE x = "" -> 0 [] x = "1.5" -> 3 [] OTHER -> 1

(* int.to_bytes(8, "big", signed=True) raises OverflowError outside        *)
(* -2^63 .. 2^63 - 1.                                                      *)
fits_int64(v) ==
  \/ v.s = ""
  \/ v.s = "2^63" /\ v.i < 0
  \/ v.s = "-2^63" /\ v.i >= 0

to_bytes(v) ==
  CASE v.s = "" /\ v.i >= 0 -> <<0, 0, 0, v.i>>
    [] v.s = "" /\ v.i < 0 -> <<Limb - 1, Limb - 1, Limb - 1, Limb + v.i>>
    [] v.s = "2^63" -> <<(Limb \div 2) - 1, Limb - 1, Limb - 1, Limb + v.i>>
    [] OTHER -> <<Limb \div 2, 0, 0, v.i>>

(* int.from_bytes(data, "big", signed=True) *)
from_bytes(w) ==
  CASE w[1] = 0 -> IntV(w[4])
    [] w[1] = Limb - 1 -> IntV(w[4] - Limb)
    [] w[1] = (Limb \div 2) - 1 -> BigIntV("2^63", w[4] - Limb)
    [] OTHER -> BigIntV("-2^63", w[4])

(* Whether no int of the value overflows eight bytes. *)
RECURSIVE ints_fit(_)
ints_fit(v) ==
  CASE v.t = "int" -> fits_int64(v)
    [] v.t = "dict" -> \A k \in DOMAIN v.m : ints_fit(v.m[k])
    [] v.t \in {"list", "tuple"} -> \A k \in DOMAIN v.elems : ints_fit(v.elems[k])
    [] OTHER -> TRUE

RECURSIVE _serialize_value(_)
RECURSIVE serialize_items(_, _)
RECURSIVE serialize_pairs(_, _)

serialize_items(elems, k) ==
  IF k > Len(elems) THEN <<>>
  ELSE _serialize_value(elems[k]) \o serialize_items(elems, k + 1)

(* the pairs of sorted(value.items()), from the k-th key on *)
serialize_pairs(m, ks) ==
  IF ks = <<>> THEN <<>>
  ELSE <<Length(Utf8Len(Head(ks)))>> \o TextRun(Head(ks))
         \o _serialize_value(m[Head(ks)]) \o serialize_pairs(m, Tail(ks))

_serialize_value(v) ==
  CASE v.t = "none" -> <<Tag("none")>>
    [] v.t = "bool" -> <<Tag("bool"), Byte(v.i)>>
    [] v.t = "int" -> <<Tag("int_"), Int64(to_bytes(v))>>
    [] v.t = "str" -> <<Tag("str_"), Length(Utf8Len(v.s))>> \o TextRun(v.s)
    [] v.t = "decimal" -> <<Tag("decm"), Length(Utf8Len(v.s))>> \o TextRun(v.s)
    [] v.t = "dict" -> <<Tag("dict"), Length(Cardinality(DOMAIN v.m))>>
                         \o serialize_pairs(v.m, sorted_keys(v.m))
    [] v.t = "list" -> <<Tag("list"), Length(Len(v.elems))>> \o serialize_items(v.elems, 1)
    [] OTHER -> <<Tag("tupl"), Length(Len(v.elems))>> \o serialize_items(v.elems, 1)

serialize(value) ==
  IF ~is_cacheable(value) THEN [ok |-> FALSE, err |-> "type_error", data |-> <<>>]
  ELSE IF ~ints_fit(value) THEN [ok |-> FALSE, err |-> "overflow_error", data |-> <<>>]
  ELSE [ok |-> TRUE, err |-> "", data |-> _serialize_value(value)]

Parsed(v, pos) == [ok |-> TRUE, err |-> "", v |-> v, pos |-> pos]
Corrupt == [ok |-> FALSE, err |-> "value_error", v |-> NoneV, pos |-> 0]
(* Decimal(text) raises decimal.InvalidOperation, which is no ValueError. *)
NotANumber == [ok |-> FALSE, err |-> "invalid_operation", v |-> NoneV, pos |-> 0]

(* Whether the stream has a token of kind k at pos: a read that comes up   *)
(* short raises ValueError.  The texts of the model's streams are as long  *)
(* as the length written before them says.                                 *)
At(stream, pos, k) == pos <= Len(stream) /\ stream[pos].k = k

(* The texts Decimal() parses. *)
IsNumeral(x) == x = "1.5"

RECURSIVE _deserialize_value(_, _)
RECURSIVE deserialize_items(_, _, _, _)
RECURSIVE deserialize_pairs(_, _, _, _)

(* the loops "for _ in range(length)" of the list, tuple and dict branches *)
deserialize_items(stream, pos, length, result) ==
  IF length = 0 THEN Parsed(result, pos)
  ELSE LET item == _deserialize_value(stream, pos)
       IN IF ~item.ok THEN item
          ELSE deserialize_items(stream, item.pos, length - 1, Append(result, item.v))

deserialize_pairs(stream, pos, length, result) ==
  IF length = 0 THEN Parsed(result, pos)
  ELSE IF ~At(stream, pos, "len") THEN Corrupt
  ELSE IF stream[pos].n > 0 /\ ~At(stream, pos + 1, "text") THEN Corrupt
  ELSE LET key == IF stream[pos].n = 0 THEN "" ELSE stream[pos + 1].s
           value == _deserialize_value(stream, IF stream[pos].n = 0 THEN pos + 1
                                                                     ELSE pos + 2)
       IN IF ~value.ok THEN value
          ELSE deserialize_pairs(stream, value.pos, length - 1,
                                 [k \in DOMAIN result \cup {key} |->
                                    IF k = key THEN value.v ELSE result[k]])

_deserialize_value(stream, pos) ==
  IF ~At(stream, pos, "tag") THEN Corrupt
  ELSE LET tag == stream[pos].s
       IN CASE tag = "none" -> Parsed(NoneV, pos + 1)
            [] tag = "bool" ->
                 IF ~At(stream, pos + 1, "byte") THEN Corrupt
                 ELSE Parsed(BoolV(stream[pos + 1].n = 1), pos + 2)
            [] tag = "int_" ->
                 IF ~At(stream, pos + 1, "i64") THEN Corrupt
                 ELSE Parsed(from_bytes(stream[pos + 1].w), pos + 2)
            [] tag = "str_" ->
                 IF ~At(stream, pos + 1, "len") THEN Corrupt
                 ELSE IF stream[pos + 1].n = 0 THEN Parsed(StrV(""), pos + 2)
                 ELSE IF ~At(stream, pos + 2, "text") THEN Corrupt
                 ELSE Parsed(StrV(stream[pos + 2].s), pos + 3)
            [] tag = "decm" ->
                 IF ~At(stream, pos + 1, "len") THEN Corrupt
                 ELSE IF stream[pos + 1].n = 0 THEN NotANumber
                 ELSE IF ~At(stream, pos + 2, "text") THEN Corrupt
                 ELSE IF ~IsNumeral(stream[pos + 2].s) THEN NotANumber
                 ELSE Parsed(DecimalV(stream[pos + 2].s), pos + 3)
            [] tag \in {"dict", "list", "tupl"} ->
                 IF ~At(stream, pos + 1, "len") THEN Corrupt
                 ELSE LET length == stream[pos + 1].n
                          r == IF tag = "dict"
                               THEN deserialize_pairs(stream, pos + 2, length,
                                                      [k \in {} |-> NoneV])
                               ELSE deserialize_items(stream, pos + 2, length, <<>>)
                      IN IF ~r.ok THEN r
                         ELSE IF tag = "dict" THEN Parsed(DictV(r.v), r.pos)
                         ELSE IF tag = "list" THEN Parsed(ListV(r.v), r.pos)
                         ELSE Parsed(TupleV(r.v), r.pos)
            [] OTHER -> Corrupt

(* Variant: bytes left over after the value are an error. *)
deserialize_to_end(data) ==
  LET r == _deserialize_value(data, 1)
  IN IF r.ok /\ r.pos = Len(data) + 1 THEN [ok |-> TRUE, err |-> "", v |-> r.v]
     ELSE [ok |-> FALSE, err |-> IF r.ok THEN "value_error" ELSE r.err, v |-> NoneV]

deserialize(data) ==
  LET r == _deserialize_value(data, 1)
  IN IF r.ok THEN [ok |-> TRUE, err |-> "", v |-> r.v]
     ELSE [ok |-> FALSE, err |-> r.err, v |-> NoneV]

(***************************************************************************)
(* Parameter markers and the expression layer.  A param value is a literal,*)
(* a ref(dep) marker or a cel(expr) marker; the expressions of the model   *)
(* are a variable, min(x, y) and max(x, y) over dependency names, and the  *)
(* literals 1.5 and [1.5], whose results are a double and a list of one.   *)
(***************************************************************************)
NoExpr == [f |-> "none", x |-> "", y |-> ""]
Lit(v) == [k |-> "lit", v |-> v, dep |-> "", e |-> NoExpr]
Ref(d) == [k |-> "ref", v |-> NoneV, dep |-> d, e |-> NoExpr]
Cel(f, x, y) == [k |-> "cel", v |-> NoneV, dep |-> "", e |-> [f |-> f, x |-> x, y |-> y]]

Ok(v) == [ok |-> TRUE, err |-> "", v |-> v]
Fail(e) == [ok |-> FALSE, err |-> e, v |-> NoneV]

(* Strings of the model in the order Python's < puts them. *)
StrOrder == <<"1", "a">>
StrRank(x) == IF \E k \in 1..Len(StrOrder) : StrOrder[k] = x
              THEN CHOOSE k \in 1..Len(StrOrder) : StrOrder[k] = x
              ELSE 0

CelInt(n) == [t |-> "cel_int", i |-> n, s |-> ""]
CelStr(x) == [t |-> "cel_str", i |-> 0, s |-> x]
CelMap(n) == [t |-> "cel_map", i |-> n, s |-> ""]
CelDouble == [t |-> "cel_double", i |-> 15, s |-> ""]
CelList(elems) == [t |-> "cel_list", i |-> 0, s |-> "", elems |-> elems]

(* The float checks of _evaluate_cel (on the result) and of _cel_to_python *)
(* (on each item of a list result): whether ValueError is raised.          *)
returned_float(c) ==
  \/ c.t = "cel_double"
  \/ c.t = "cel_list" /\ \E k \in DOMAIN c.elems : c.elems[k].t = "cel_double"

_value_to_cel(v) ==
  CASE v.t \in {"int", "bool"} -> CelInt(v.i)
    [] v.t = "str" -> CelStr(v.s)
    [] v.t = "none" -> NoneV
    [] v.t = "icac" -> CelMap(v.i)
    [] v.t = "bytes" -> CelStr("b'" \o v.s \o "'")
    [] v.t = "decimal" -> v
    [] OTHER -> CelStr("1.5")

_extract_comparison_value(c) ==
  CASE c.t = "cel_map" -> IntV(c.i)
    [] c.t = "cel_int" -> IntV(c.i)
    [] c.t = "cel_str" -> StrV(c.s)
    [] OTHER -> c

(* The number a Decimal or an int stands for, in tenths. *)
Tenths(a) ==
  IF a.t = "int" THEN 10 * a.i
  ELSE CASE a.s = "1" -> 10 [] a.s = "1.0" -> 10 [] a.s = "1.5" -> 15 [] OTHER -> 20

(* Python's < on the extracted values: defined on two strs and on two      *)
(* numbers (int or Decimal), compared by the number they stand for.        *)
Comparable(a, b) ==
  \/ a.t = "str" /\ b.t = "str"
  \/ a.t \in {"int", "decimal"} /\ b.t \in {"int", "decimal"}
Less(a, b) == IF a.t = "str" THEN StrRank(a.s) < StrRank(b.s) ELSE Tenths(a) < Tenths(b)

_min_function(a, b) ==
  IF Less(_extract_comparison_value(a), _extract_comparison_value(b)) THEN a ELSE b

_max_function(a, b) ==
  IF Less(_extract_comparison_value(b), _extract_comparison_value(a)) THEN a ELSE b

_cel_to_python(c) ==
  CASE c.t = "cel_int" -> IntV(c.i)
    [] c.t = "cel_str" -> StrV(c.s)
    [] OTHER -> c

(* The MapType of a domain value carries a 'value' key, which is extracted. *)
CelResult(c) == _cel_to_python(IF c.t = "cel_map" THEN CelInt(c.i) ELSE c)

_evaluate_cel(e, dependencies) ==
  IF e.f \in {"double", "list_double"}
  THEN LET result == IF e.f = "double" THEN CelDouble ELSE CelList(<<CelDouble>>)
       IN IF returned_float(result) THEN Fail("resolution") ELSE Ok(CelResult(result))
  ELSE IF e.f = "var"
  THEN IF e.x \in DOMAIN dependencies
       THEN Ok(CelResult(_value_to_cel(dependencies[e.x])))
       ELSE Fail("resolution")
  ELSE IF e.x \notin DOMAIN dependencies \/ e.y \notin DOMAIN dependencies
       THEN Fail("resolution")
       ELSE LET a == _value_to_cel(dependencies[e.x])
                b == _value_to_cel(dependencies[e.y])
            IN IF ~Comparable(_extract_comparison_value(a), _extract_comparison_value(b))
               THEN Fail("resolution")
               ELSE Ok(CelResult(IF e.f = "min" THEN _min_function(a, b)
                                                ELSE _max_function(a, b)))

(* A ref or cel marker object that is still in a value. *)
MarkerV(pv) == [t |-> "marker", i |-> 0, s |-> pv.k]

(* The key of the j-th entry of a nested dict param. *)
NestedKey(j) == NameOrder[j]

(* A param value taken as it is written, markers included. *)
RECURSIVE as_is(_)
as_is(pv) ==
  CASE pv.k \in {"ref", "cel"} -> MarkerV(pv)
    [] pv.k = "dict" -> DictV([key \in {NestedKey(j) : j \in DOMAIN pv.elems} |->
                               as_is(pv.elems[CHOOSE j \in DOMAIN pv.elems :
                                                NestedKey(j) = key])])
    [] pv.k = "list" -> ListV([j \in DOMAIN pv.elems |-> as_is(pv.elems[j])])
    [] pv.k = "tuple" -> TupleV([j \in DOMAIN pv.elems |-> as_is(pv.elems[j])])
    [] OTHER -> pv.v

(* Variant: a tuple is resolved item by item, like a list. *)
RECURSIVE _resolve_value_tuples(_, _)
_resolve_value_tuples(pv, dependencies) ==
  CASE pv.k = "ref" -> IF pv.dep \in DOMAIN dependencies
                       THEN Ok(dependencies[pv.dep])
                       ELSE Fail("resolution")
    [] pv.k = "cel" -> _evaluate_cel(pv.e, dependencies)
    [] pv.k \in {"dict", "list", "tuple"} ->
         LET rs == [j \in DOMAIN pv.elems |->
                      _resolve_value_tuples(pv.elems[j], dependencies)]
         IN IF \E j \in DOMAIN rs : ~rs[j].ok THEN Fail("resolution")
            ELSE IF pv.k = "dict"
            THEN Ok(DictV([key \in {NestedKey(j) : j \in DOMAIN rs} |->
                             rs[CHOOSE j \in DOMAIN rs : NestedKey(j) = key].v]))
            ELSE IF pv.k = "list" THEN Ok(ListV([j \in DOMAIN rs |-> rs[j].v]))
            ELSE Ok(TupleV([j \in DOMAIN rs |-> rs[j].v]))
    [] OTHER -> Ok(pv.v)

(* _resolve_value descends into dicts and lists; any other value, a tuple  *)
(* included, is returned as it is.                                         *)
RECURSIVE _resolve_value(_, _)
_resolve_value(pv, dependencies) ==
  CASE pv.k = "ref" -> IF pv.dep \in DOMAIN dependencies
                       THEN Ok(dependencies[pv.dep])
                       ELSE Fail("resolution")
    [] pv.k = "cel" -> _evaluate_cel(pv.e, dependencies)
    [] pv.k \in {"dict", "list"} ->
         LET rs == [j \in DOMAIN pv.elems |-> _resolve_value(pv.elems[j], dependencies)]
         IN IF \E j \in DOMAIN rs : ~rs[j].ok THEN Fail("resolution")
            ELSE IF pv.k = "dict"
            THEN Ok(DictV([key \in {NestedKey(j) : j \in DOMAIN rs} |->
                             rs[CHOOSE j \in DOMAIN rs : NestedKey(j) = key].v]))
            ELSE Ok(ListV([j \in DOMAIN rs |-> rs[j].v]))
    [] pv.k = "tuple" -> Ok(as_is(pv))
    [] OTHER -> Ok(pv.v)

resolve_params(params, dependencies) ==
  IF \E k \in DOMAIN params : ~_resolve_value(params[k], dependencies).ok
  THEN [ok |-> FALSE, err |-> "resolution", m |-> <<>>]
  ELSE [ok |-> TRUE, err |-> "",
        m |-> [k \in DOMAIN params |-> _resolve_value(params[k], dependencies).v]]

(***************************************************************************)
(* Registry and operations.  The registered operations are the ones of     *)
(* the executor tests; a signature lists each parameter with whether it    *)
(* has a default and whether it is the variadic-by-name parameter.         *)
(***************************************************************************)
P(name, has_default, var_kw) ==
  [name |-> name, has_default |-> has_default, var_kw |-> var_kw]

Registered == {"identity", "add_one", "count_op", "half", "halves"}

Signature(op_name) ==
  CASE op_name = "identity" -> <<P("value", FALSE, FALSE)>>
    [] op_name = "add_one" -> <<P("value", TRUE, FALSE)>>
    [] OTHER -> <<>>

(* Operations without parameters that return a float and a list of one. *)
half(kwargs) == Ok(FloatV)
halves(kwargs) == Ok(ListV(<<FloatV>>))

identity_op(kwargs) == Ok(kwargs["value"])

add_one(kwargs) ==
  LET value == IF "value" \in DOMAIN kwargs THEN kwargs["value"] ELSE IntV(0)
  IN IF value.t \in {"int", "bool"} THEN Ok(IntV(value.i + 1)) ELSE Fail("op_raised")

counting_op(kwargs) == Ok(IntV(42))

CallOp(op_name, kwargs) ==
  CASE op_name = "identity" -> identity_op(kwargs)
    [] op_name = "add_one" -> add_one(kwargs)
    [] op_name = "half" -> half(kwargs)
    [] op_name = "halves" -> halves(kwargs)
    [] OTHER -> counting_op(kwargs)

SigNames(sig) == {sig[k].name : k \in 1..Len(sig)}

(* Variant: every manifest key is passed, whatever the signature. *)
bind_kwargs_all(sig, manifest) ==
  LET missing == {k \in 1..Len(sig) : /\ sig[k].name \notin DOMAIN manifest
                                      /\ ~sig[k].has_default
                                      /\ ~sig[k].var_kw}
  IN [ok |-> missing = {}, kwargs |-> manifest]

(* _invoke_op, lines 154-177: the keyword arguments built from the         *)
(* signature and the manifest, or the missing-parameter error.             *)
bind_kwargs(sig, manifest) ==
  LET missing == {k \in 1..Len(sig) : /\ sig[k].name \notin DOMAIN manifest
                                      /\ ~sig[k].has_default
                                      /\ ~sig[k].var_kw}
      has_var_kwargs == \E k \in 1..Len(sig) : sig[k].var_kw
      passed == IF has_var_kwargs THEN DOMAIN manifest
                ELSE DOMAIN manifest \cap SigNames(sig)
  IN [ok |-> missing = {}, kwargs |-> [k \in passed |-> manifest[k]]]

(* Variant: the operation's return value is passed on unchecked. *)
_invoke_op_unchecked(op_name, manifest) ==
  LET b == bind_kwargs(Signature(op_name), manifest)
      result == CallOp(op_name, b.kwargs)
  IN IF ~b.ok THEN Fail("missing_param") ELSE result

_invoke_op(op_name, manifest) ==
  LET b == bind_kwargs(Signature(op_name), manifest)
      result == CallOp(op_name, b.kwargs)
  IN IF ~b.ok THEN Fail("missing_param")
     ELSE IF ~result.ok THEN result
     ELSE IF ~is_cacheable(result.v) THEN Fail("not_cacheable")
     ELSE result

(***************************************************************************)
(* Graph resolver.  A graph is a function from vertex ids to nodes         *)
(* [op_name, params, deps, cache]; deps is a list and may repeat a name.   *)
(* A dict iterates in insertion order, taken to be IdOrder; a set of       *)
(* strings iterates in an order the program does not control, so the       *)
(* operators that iterate node_ids take that order as the argument iter.   *)
(***************************************************************************)
IdOrder == <<"n1", "n2", "n3">>
Ids == {IdOrder[k] : k \in 1..Len(IdOrder)}

items(g) == SelectSeq(IdOrder, LAMBDA n : n \in DOMAIN g)

Perms(S) == {p \in [1..Cardinality(S) -> S] : \A a \in S : \E k \in DOMAIN p : p[k] = a}

RECURSIVE dfs(_, _, _)
RECURSIVE dfs_deps(_, _, _, _)
dfs(g, node_id, color) ==
  IF node_id \notin DOMAIN g THEN [found |-> FALSE, color |-> color]
  ELSE IF color[node_id] = "GRAY" THEN [found |-> TRUE, color |-> color]
  ELSE IF color[node_id] = "BLACK" THEN [found |-> FALSE, color |-> color]
  ELSE LET r == dfs_deps(g, g[node_id].deps, 1, [color EXCEPT ![node_id] = "GRAY"])
       IN IF r.found THEN r
          ELSE [found |-> FALSE, color |-> [r.color EXCEPT ![node_id] = "BLACK"]]

dfs_deps(g, deps, k, color) ==
  IF k > Len(deps) THEN [found |-> FALSE, color |-> color]
  ELSE IF deps[k] \in DOMAIN g
       THEN LET r == dfs(g, deps[k], color)
            IN IF r.found THEN r ELSE dfs_deps(g, deps, k + 1, r.color)
       ELSE dfs_deps(g, deps, k + 1, color)

RECURSIVE has_cycle_loop(_, _, _, _)
has_cycle_loop(g, iter, k, color) ==
  IF k > Len(iter) THEN FALSE
  ELSE IF color[iter[k]] = "WHITE"
       THEN LET r == dfs(g, iter[k], color)
            IN IF r.found THEN TRUE ELSE has_cycle_loop(g, iter, k + 1, r.color)
       ELSE has_cycle_loop(g, iter, k + 1, color)

(* Variant: only the component of the first vertex is searched. *)
_has_cycle_first_only(g, iter) == dfs(g, iter[1], [n \in DOMAIN g |-> "WHITE"]).found

_has_cycle(g, iter) == has_cycle_loop(g, iter, 1, [n \in DOMAIN g |-> "WHITE"])

(* The entries of a deps list that are graph vertices. *)
graph_deps(g, n) == SelectSeq(g[n].deps, LAMBDA d : d \in DOMAIN g)

(* dependents[dep]: node_id appended once per occurrence of dep in its deps. *)
dependents(g, dep) ==
  LET RECURSIVE build(_)
      build(its) ==
        IF its = <<>> THEN <<>>
        ELSE [k \in 1..Len(SelectSeq(g[Head(its)].deps, LAMBDA d : d = dep)) |-> Head(its)]
             \o build(Tail(its))
  IN build(items(g))

RECURSIVE relax(_, _, _, _)
relax(ds, k, in_degree, queue) ==
  IF k > Len(ds) THEN [in_degree |-> in_degree, queue |-> queue]
  ELSE LET deg == [in_degree EXCEPT ![ds[k]] = @ - 1]
       IN relax(ds, k + 1, deg, IF deg[ds[k]] = 0 THEN Append(queue, ds[k]) ELSE queue)

RECURSIVE kahn(_, _, _, _)
kahn(g, queue, result, in_degree) ==
  IF queue = <<>> THEN result
  ELSE LET node_id == Head(queue)
           r == relax(dependents(g, node_id), 1, in_degree, Tail(queue))
       IN kahn(g, r.queue, Append(result, node_id), r.in_degree)

(* Variant: the in-degree counts every dep, context keys included. *)
topological_sort_all_deps(g, iter) ==
  LET in_degree == [n \in DOMAIN g |-> Len(g[n].deps)]
      queue == SelectSeq(iter, LAMBDA n : in_degree[n] = 0)
      result == kahn(g, queue, <<>>, in_degree)
  IN IF Len(result) # Cardinality(DOMAIN g)
     THEN [ok |-> FALSE, err |-> "cycle_sort", result |-> result]
     ELSE [ok |-> TRUE, err |-> "", result |-> result]

(* Variant: the result of Kahn's loop is returned whatever its length. *)
topological_sort_any_length(g, iter) ==
  LET in_degree == [n \in DOMAIN g |-> Len(graph_deps(g, n))]
      queue == SelectSeq(iter, LAMBDA n : in_degree[n] = 0)
  IN [ok |-> TRUE, err |-> "", result |-> kahn(g, queue, <<>>, in_degree)]

(* Variant: the vertices are returned in iteration order, unsorted. *)
topological_sort_unsorted(g, iter) == [ok |-> TRUE, err |-> "", result |-> iter]

topological_sort(g, iter) ==
  LET in_degree == [n \in DOMAIN g |-> Len(graph_deps(g, n))]
      queue == SelectSeq(iter, LAMBDA n : in_degree[n] = 0)
      result == kahn(g, queue, <<>>, in_degree)
  IN IF Len(result) # Cardinality(DOMAIN g)
     THEN [ok |-> FALSE, err |-> "cycle_sort", result |-> result]
     ELSE [ok |-> TRUE, err |-> "", result |-> result]

(* validate: the first failing check names the error; with_registry is     *)
(* false for a resolver built without a registry (op check skipped).       *)
(* validate, lines 60-66: the loop over graph.items() reads node.op_name   *)
(* and stops at the first vertex that has none or whose op is unknown.     *)
ops_check(g) ==
  LET bad == {k \in 1..Len(items(g)) :
                \/ g[items(g)[k]].kind = "subgraph"
                \/ g[items(g)[k]].op_name \notin Registered}
  IN IF bad = {} THEN "ok"
     ELSE LET k == CHOOSE x \in bad : \A y \in bad : x <= y
          IN IF g[items(g)[k]].kind = "subgraph" THEN "attribute_error"
             ELSE "unregistered_op"

(* Variant: a dep must be a vertex of the graph; context keys do not count. *)
validate_graph_only(g, context_keys, with_registry, iter) ==
  IF \E n \in DOMAIN g : \E k \in 1..Len(g[n].deps) : g[n].deps[k] \notin DOMAIN g
  THEN "missing_dep"
  ELSE IF with_registry /\ ops_check(g) # "ok" THEN ops_check(g)
  ELSE IF _has_cycle(g, iter) THEN "cycle"
  ELSE "ok"

validate(g, context_keys, with_registry, iter) ==
  IF \E n \in DOMAIN g : \E k \in 1..Len(g[n].deps) :
        g[n].deps[k] \notin DOMAIN g /\ g[n].deps[k] \notin context_keys
  THEN "missing_dep"
  ELSE IF with_registry /\ ops_check(g) # "ok" THEN ops_check(g)
  ELSE IF _has_cycle(g, iter) THEN "cycle"
  ELSE "ok"

(* Variant: the order lists every vertex twice. *)
resolve_twice(g, context_keys, with_registry, iter) ==
  LET v == validate(g, context_keys, with_registry, iter)
      t == topological_sort(g, iter)
  IN IF v # "ok" THEN [ok |-> FALSE, err |-> v, result |-> <<>>]
     ELSE [t EXCEPT !.result = t.result \o t.result]

(* Variant: the graph is sorted without being validated first. *)
resolve_unvalidated(g, context_keys, with_registry, iter) == topological_sort(g, iter)

resolve(g, context_keys, with_registry, iter) ==
  LET v == validate(g, context_keys, with_registry, iter)
  IN IF v # "ok" THEN [ok |-> FALSE, err |-> v, result |-> <<>>]
     ELSE topological_sort(g, iter)

(***************************************************************************)
(* Artifact stores.  A store is [kind, l1, l2, stats]: a NullStore uses    *)
(* neither tier, a MemoryStore keeps its entries in l1, a DiskStore its    *)
(* files in l2, a ChainStore has a MemoryStore l1 over a DiskStore l2.  Entries are functions from   *)
(* the key to the artifact.  io_fail is an I/O fault of the disk tier.     *)
(***************************************************************************)
NoStats == [hits |-> 0, misses |-> 0, puts |-> 0]
EmptyTier == [k \in {} |-> NoneV]
NewStore(kind) == [kind |-> kind, l1 |-> EmptyTier, l2 |-> EmptyTier, stats |-> NoStats]

Key(op_name, digest) == <<op_name, digest>>

(* DiskStore._get_path: ':' and '/' of the op name become '_'. *)
safe_op_name(op_name) ==
  CASE op_name = "t:op" -> "t_op"
    [] op_name = "t/op" -> "t_op"
    [] OTHER -> op_name

_get_path(op_name, digest) == <<safe_op_name(op_name), digest>>

(* Variant: writing over an existing entry removes it. *)
TierPut_unlink(tier, k, v) ==
  IF k \in DOMAIN tier THEN [x \in DOMAIN tier \ {k} |-> tier[x]]
  ELSE [x \in DOMAIN tier \cup {k} |-> v]

TierPut(tier, k, v) == [x \in DOMAIN tier \cup {k} |-> IF x = k THEN v ELSE tier[x]]

memory_exists(tier, op_name, digest) == Key(op_name, digest) \in DOMAIN tier
memory_get(tier, op_name, digest) ==
  IF Key(op_name, digest) \in DOMAIN tier THEN Ok(tier[Key(op_name, digest)])
  ELSE Fail("not_found")
memory_put(tier, op_name, digest, artifact) == TierPut(tier, Key(op_name, digest), artifact)

disk_exists(files, op_name, digest) == _get_path(op_name, digest) \in DOMAIN files
(* Integer.to_stream and from_stream: eight bytes, big-endian two's         *)
(* complement, written here as the sign and the magnitude they encode.     *)
to_stream(v) == [neg |-> v.i < 0, mag |-> IF v.i < 0 THEN 0 - v.i ELSE v.i]
from_stream(data) == IntegerV(IF data.neg THEN 0 - data.mag ELSE data.mag)

(* The file of an entry: the artifact's class name, then its stream. *)
encode_file(artifact) == [type_name |-> "invariant.types.Integer", data |-> to_stream(artifact)]
decode_file(f) == from_stream(f.data)

disk_get(files, op_name, digest, io_fail) ==
  IF _get_path(op_name, digest) \notin DOMAIN files THEN Fail("not_found")
  ELSE IF io_fail THEN Fail("store_error")
  ELSE Ok(decode_file(files[_get_path(op_name, digest)]))
(* put serialises with artifact.to_stream, which only domain values have;  *)
(* the key's file is replaced only after the temp file is fully written.   *)
disk_put(files, op_name, digest, artifact, io_fail) ==
  IF artifact.t # "icac" \/ io_fail
  THEN [ok |-> FALSE, files |-> files]
  ELSE [ok |-> TRUE,
        files |-> TierPut(files, _get_path(op_name, digest), encode_file(artifact))]

Hit(st) == [st EXCEPT !.stats.hits = @ + 1]
Miss(st) == [st EXCEPT !.stats.misses = @ + 1]

(* Variant: a NullStore that reports every key as present. *)
null_exists_always(st, op_name, digest) == [res |-> TRUE, st |-> st]
null_exists(st, op_name, digest) == [res |-> FALSE, st |-> st]
null_get(st, op_name, digest) == [r |-> Fail("not_found"), st |-> st, io |-> FALSE]
null_put(st, op_name, digest, artifact) == [ok |-> TRUE, st |-> st, io |-> FALSE]

(* A MemoryStore used as the executor's store: exists counts a hit or a    *)
(* miss, put counts a put, get counts nothing.                             *)
memory_store_exists(st, op_name, digest) ==
  IF memory_exists(st.l1, op_name, digest)
  THEN [res |-> TRUE, st |-> Hit(st)]
  ELSE [res |-> FALSE, st |-> Miss(st)]

memory_store_get(st, op_name, digest) ==
  [r |-> memory_get(st.l1, op_name, digest), st |-> st, io |-> FALSE]

memory_store_put(st, op_name, digest, artifact) ==
  [ok |-> TRUE, io |-> FALSE,
   st |-> [st EXCEPT !.l1 = memory_put(st.l1, op_name, digest, artifact),
                     !.stats.puts = @ + 1]]

(* A DiskStore used as the executor's store; it keeps no counters. *)
disk_store_exists(st, op_name, digest) ==
  [res |-> disk_exists(st.l2, op_name, digest), st |-> st]

disk_store_get(st, op_name, digest, io_fail) ==
  [r |-> disk_get(st.l2, op_name, digest, io_fail), st |-> st,
   io |-> disk_exists(st.l2, op_name, digest)]

disk_store_put(st, op_name, digest, artifact, io_fail) ==
  LET w == disk_put(st.l2, op_name, digest, artifact, io_fail)
  IN [ok |-> w.ok, io |-> artifact.t = "icac", st |-> [st EXCEPT !.l2 = w.files]]

(* Variant: L2 is consulted first and its hits are not counted. *)
chain_exists_l2_first(st, op_name, digest) ==
  IF disk_exists(st.l2, op_name, digest)
  THEN [res |-> TRUE, st |-> st, l2 |-> TRUE]
  ELSE IF memory_exists(st.l1, op_name, digest)
  THEN [res |-> TRUE, st |-> Hit(st), l2 |-> TRUE]
  ELSE [res |-> FALSE, st |-> Miss(st), l2 |-> TRUE]

(* l2 tells whether the call consulted the L2 store. *)
chain_exists(st, op_name, digest) ==
  IF memory_exists(st.l1, op_name, digest)
  THEN [res |-> TRUE, st |-> Hit(st), l2 |-> FALSE]
  ELSE IF disk_exists(st.l2, op_name, digest)
  THEN [res |-> TRUE, st |-> Hit(st), l2 |-> TRUE]
  ELSE [res |-> FALSE, st |-> Miss(st), l2 |-> TRUE]

(* io tells whether the call reached the disk tier's file I/O. *)
(* Variant: an L2 hit is returned without being written to L1. *)
chain_get_no_promote(st, op_name, digest, io_fail) ==
  IF memory_exists(st.l1, op_name, digest)
  THEN [r |-> memory_get(st.l1, op_name, digest), st |-> st, io |-> FALSE, l2 |-> FALSE]
  ELSE IF disk_exists(st.l2, op_name, digest)
  THEN [r |-> disk_get(st.l2, op_name, digest, io_fail), st |-> st, io |-> TRUE,
        l2 |-> TRUE]
  ELSE [r |-> Fail("not_found"), st |-> st, io |-> FALSE, l2 |-> TRUE]

(* Variant: a get that finds the entry counts a hit as well. *)
chain_get_counted(st, op_name, digest, io_fail) ==
  IF memory_exists(st.l1, op_name, digest)
  THEN [r |-> memory_get(st.l1, op_name, digest), st |-> Hit(st), io |-> FALSE,
        l2 |-> FALSE]
  ELSE IF disk_exists(st.l2, op_name, digest)
  THEN LET a == disk_get(st.l2, op_name, digest, io_fail)
       IN IF a.ok
          THEN [r |-> a, io |-> TRUE, l2 |-> TRUE,
                st |-> Hit([st EXCEPT !.l1 = memory_put(st.l1, op_name, digest, a.v)])]
          ELSE [r |-> a, st |-> st, io |-> TRUE, l2 |-> TRUE]
  ELSE [r |-> Fail("not_found"), st |-> st, io |-> FALSE, l2 |-> TRUE]

chain_get(st, op_name, digest, io_fail) ==
  IF memory_exists(st.l1, op_name, digest)
  THEN [r |-> memory_get(st.l1, op_name, digest), st |-> st, io |-> FALSE, l2 |-> FALSE]
  ELSE IF disk_exists(st.l2, op_name, digest)
  THEN LET a == disk_get(st.l2, op_name, digest, io_fail)
       IN IF a.ok
          THEN [r |-> a, io |-> TRUE, l2 |-> TRUE,
                st |-> [st EXCEPT !.l1 = memory_put(st.l1, op_name, digest, a.v)]]
          ELSE [r |-> a, st |-> st, io |-> TRUE, l2 |-> TRUE]
  ELSE [r |-> Fail("not_found"), st |-> st, io |-> FALSE, l2 |-> TRUE]

(* Variant: put writes L1 only. *)
chain_put_l1_only(st, op_name, digest, artifact, io_fail) ==
  [ok |-> TRUE, io |-> FALSE,
   st |-> [st EXCEPT !.l1 = memory_put(st.l1, op_name, digest, artifact),
                     !.stats.puts = @ + 1]]

(* put writes L1, then L2, then counts the put; a failing L2 write raises  *)
(* after L1 has been written.                                              *)
chain_put(st, op_name, digest, artifact, io_fail) ==
  LET w1 == [st EXCEPT !.l1 = memory_put(st.l1, op_name, digest, artifact)]
      w2 == disk_put(st.l2, op_name, digest, artifact, io_fail)
  IN IF w2.ok
     THEN [ok |-> TRUE, io |-> TRUE,
           st |-> [w1 EXCEPT !.l2 = w2.files, !.stats.puts = @ + 1]]
     ELSE [ok |-> FALSE, st |-> w1, io |-> artifact.t = "icac"]

store_exists(st, op_name, digest) ==
  CASE st.kind = "null" -> null_exists(st, op_name, digest)
    [] st.kind = "memory" -> memory_store_exists(st, op_name, digest)
    [] st.kind = "disk" -> disk_store_exists(st, op_name, digest)
    [] OTHER -> chain_exists(st, op_name, digest)

store_get(st, op_name, digest, io_fail) ==
  CASE st.kind = "null" -> null_get(st, op_name, digest)
    [] st.kind = "memory" -> memory_store_get(st, op_name, digest)
    [] st.kind = "disk" -> disk_store_get(st, op_name, digest, io_fail)
    [] OTHER -> chain_get(st, op_name, digest, io_fail)

store_put(st, op_name, digest, artifact, io_fail) ==
  CASE st.kind = "null" -> null_put(st, op_name, digest, artifact)
    [] st.kind = "memory" -> memory_store_put(st, op_name, digest, artifact)
    [] st.kind = "disk" -> disk_store_put(st, op_name, digest, artifact, io_fail)
    [] OTHER -> chain_put(st, op_name, digest, artifact, io_fail)

(* Whether the store holds an entry for the key in any tier. *)
Holds(st, op_name, digest) ==
  \/ Key(op_name, digest) \in DOMAIN st.l1
  \/ _get_path(op_name, digest) \in DOMAIN st.l2

(***************************************************************************)
(* Direct use of a store, as the store tests do: a sequence of exists, get *)
(* and put calls on a MemoryStore, a DiskStore or a ChainStore, and puts   *)
(* made directly on a tier of a ChainStore (store.l1.put, store.l2.put).   *)
(* last records the latest call: its arguments, its outcome, whether it    *)
(* consulted L2, the store before it, the number of calls so far and the   *)
(* keys that gets have promoted from L2 to L1, after and before the call.  *)
(***************************************************************************)
MaxCalls == 4

NoCall ==
  [call |-> "none", op_name |-> "", digest |-> Concat(<<>>), v |-> NoneV,
   res |-> FALSE, r |-> Fail(""), ok |-> FALSE, l2 |-> FALSE,
   pre |-> NewStore("null"), n |-> 0, promoted |-> {}, before |-> {},
   touched |-> [k \in {} |-> 0], reads |-> [k \in {} |-> 0],
   touched0 |-> [k \in {} |-> 0], reads0 |-> [k \in {} |-> 0]]

StoreOps == {"t:op", "t_op", "op2"}
StoreDigests == {hash_value(IntV(1))}
StoreValues == {IntegerV(1), IntegerV(0 - 1), IntV(1), StrV("1")}

Call(name, op_name, digest) ==
  [NoCall EXCEPT !.call = name, !.op_name = op_name, !.digest = digest,
                 !.pre = store, !.n = last.n + 1, !.promoted = last.promoted,
                 !.before = last.promoted]

ExistsCall ==
  /\ last.n < MaxCalls
  /\ \E op_name \in StoreOps, digest \in StoreDigests :
       LET x == store_exists(store, op_name, digest)
       IN /\ store' = x.st
          /\ last' = [Call("exists", op_name, digest) EXCEPT
                        !.res = x.res,
                        !.l2 = IF store.kind = "chain"
                               THEN chain_exists(store, op_name, digest).l2
                               ELSE store.kind = "disk"]

GetCall ==
  /\ last.n < MaxCalls
  /\ \E op_name \in StoreOps, digest \in StoreDigests :
       LET g == store_get(store, op_name, digest, FALSE)
           from_l2 == /\ store.kind = "chain" /\ g.r.ok
                      /\ Key(op_name, digest) \notin DOMAIN store.l1
       IN /\ store' = g.st
          /\ last' = [Call("get", op_name, digest) EXCEPT
                        !.r = g.r, !.ok = g.r.ok,
                        !.l2 = IF store.kind = "chain"
                               THEN chain_get(store, op_name, digest, FALSE).l2
                               ELSE store.kind = "disk",
                        !.promoted = IF from_l2 THEN @ \cup {Key(op_name, digest)} ELSE @]

PutCall ==
  /\ last.n < MaxCalls
  /\ \E op_name \in StoreOps, digest \in StoreDigests, v \in StoreValues :
       LET w == store_put(store, op_name, digest, v, FALSE)
       IN /\ store' = w.st
          /\ last' = [Call("put", op_name, digest) EXCEPT !.v = v, !.ok = w.ok]

(* store.l1.put(...) on a ChainStore. *)
L1PutCall ==
  /\ last.n < MaxCalls
  /\ store.kind = "chain"
  /\ \E op_name \in StoreOps, digest \in StoreDigests, v \in StoreValues :
       /\ store' = [store EXCEPT !.l1 = memory_put(store.l1, op_name, digest, v)]
       /\ last' = [Call("l1put", op_name, digest) EXCEPT !.v = v, !.ok = TRUE]

(* store.l2.put(...) on a ChainStore. *)
L2PutCall ==
  /\ last.n < MaxCalls
  /\ store.kind = "chain"
  /\ \E op_name \in StoreOps, digest \in StoreDigests, v \in StoreValues :
       LET w == disk_put(store.l2, op_name, digest, v, FALSE)
       IN /\ store' = [store EXCEPT !.l2 = w.files]
          /\ last' = [Call("l2put", op_name, digest) EXCEPT !.v = v, !.ok = w.ok]

NoMem == [policy |-> "off", max_size |-> 0, data |-> EmptyTier, order |-> <<>>,
          freq |-> [k \in {} |-> 0]]

(* The files of one key of a DiskStore and the threads using them. *)
EmptyFile == [type_name |-> "", data |-> <<>>]
NoDisk == [names |-> [path |-> 0, tmp |-> 0], inodes |-> <<>>,
           w |-> [t \in {} |-> 0], rd |-> [pc |-> "off", r |-> Fail("")], n |-> 0]

(* An OpRegistry nobody has used, and no function under test. *)
NoRegistry == [_ops |-> [k \in {} |-> ""], n |-> 0, call |-> "none", ok |-> FALSE,
               err |-> "", pre |-> [k \in {} |-> ""], prefix |-> "", ops |-> <<>>]
NoFunction == [fn |-> "none"]

OthersIdle == registry = NoRegistry /\ call = NoFunction

StoreIdle == last = NoCall /\ mem = NoMem /\ disk = NoDisk /\ OthersIdle

StoreUnchanged ==
  UNCHANGED <<graph, context, useRegistry, faults, pc, run, order, sorted_nodes,
              idx, artifacts_by_node, err, events, mem, disk, registry, call>>

InitStore ==
  /\ store \in {NewStore(k) : k \in {"memory", "disk", "chain"}}
  /\ last = NoCall
  /\ mem = NoMem
  /\ disk = NoDisk
  /\ OthersIdle
  /\ graph = [n \in {} |-> NoneV]
  /\ context = EmptyTier
  /\ useRegistry = TRUE
  /\ faults = 0
  /\ pc = "off"
  /\ run = 0
  /\ order = <<>>
  /\ sorted_nodes = <<>>
  /\ idx = 0
  /\ artifacts_by_node = EmptyTier
  /\ err = ""
  /\ events = <<>>
  /\ gdeps = [n \in {} |-> <<>>]
  /\ gctx = {}
  /\ gphase = "off"
  /\ gcycle = FALSE
  /\ gsort = [ok |-> FALSE, err |-> "", result |-> <<>>]
  /\ gvalid = ""
  /\ giter = <<>>

NextStore ==
  \/ ExistsCall /\ StoreUnchanged /\ UNCHANGED graphVars
  \/ GetCall /\ StoreUnchanged /\ UNCHANGED graphVars
  \/ PutCall /\ StoreUnchanged /\ UNCHANGED graphVars
  \/ L1PutCall /\ StoreUnchanged /\ UNCHANGED graphVars
  \/ L2PutCall /\ StoreUnchanged /\ UNCHANGED graphVars

SpecStore == InitStore /\ [][NextStore]_vars

(***************************************************************************)
(* A ChainStore used only through the chain: exists, get and put calls on  *)
(* the ChainStore itself, where the write of the L2 file of a put may fail *)
(* with an I/O error.                                                      *)
(***************************************************************************)
ChainPutCall ==
  /\ last.n < MaxCalls
  /\ \E op_name \in StoreOps, digest \in StoreDigests, v \in StoreValues,
        io_fail \in BOOLEAN :
       LET w == chain_put(store, op_name, digest, v, io_fail)
       IN /\ store' = w.st
          /\ last' = [Call("put", op_name, digest) EXCEPT !.v = v, !.ok = w.ok]

InitChain == InitStore /\ store = NewStore("chain")

NextChain ==
  \/ ExistsCall /\ StoreUnchanged /\ UNCHANGED graphVars
  \/ GetCall /\ StoreUnchanged /\ UNCHANGED graphVars
  \/ ChainPutCall /\ StoreUnchanged /\ UNCHANGED graphVars

SpecChain == InitChain /\ [][NextChain]_vars

(***************************************************************************)
(* A bounded MemoryStore: cache |-> "lru" or "lfu" with max_size entries.  *)
(* data holds the entries, order lists their keys from the least to the    *)
(* most recently used, freq counts the reads of each entry.  exists does   *)
(* not touch the metadata; get and put do.                                 *)
(***************************************************************************)
NewMem(policy, max_size) ==
  [policy |-> policy, max_size |-> max_size, data |-> EmptyTier, order |-> <<>>,
   freq |-> [k \in {} |-> 0]]

Without(q, k) == SelectSeq(q, LAMBDA x : x # k)

bounded_exists(m, k) == k \in DOMAIN m.data

(* Variant: a read leaves the recency order and the read count alone. *)
bounded_get_no_touch(m, k) ==
  IF k \notin DOMAIN m.data THEN [r |-> Fail("not_found"), m |-> m]
  ELSE [r |-> Ok(m.data[k]), m |-> m]

bounded_get(m, k) ==
  IF k \notin DOMAIN m.data THEN [r |-> Fail("not_found"), m |-> m]
  ELSE [r |-> Ok(m.data[k]),
        m |-> [m EXCEPT !.order = Append(Without(m.order, k), k),
                        !.freq[k] = @ + 1]]

(* Variant: the entry evicted is the most recently used, or the most read. *)
victims_newest(m) ==
  IF m.policy = "lru" THEN {m.order[Len(m.order)]}
  ELSE {k \in DOMAIN m.data : \A x \in DOMAIN m.data : m.freq[k] >= m.freq[x]}

(* The entries a full store may evict: the least recently used one, or     *)
(* those read least often.                                                 *)
victims(m) ==
  IF m.policy = "lru" THEN {Head(m.order)}
  ELSE {k \in DOMAIN m.data : \A x \in DOMAIN m.data : m.freq[k] <= m.freq[x]}

bounded_put(m, k, v, victim) ==
  IF k \in DOMAIN m.data
  THEN [m EXCEPT !.data[k] = v, !.order = Append(Without(m.order, k), k)]
  ELSE LET full == Cardinality(DOMAIN m.data) >= m.max_size
           kept == IF full THEN DOMAIN m.data \ {victim} ELSE DOMAIN m.data
       IN [m EXCEPT !.data = [x \in kept \cup {k} |-> IF x = k THEN v ELSE m.data[x]],
                    !.order = Append(IF full THEN Without(m.order, victim) ELSE m.order, k),
                    !.freq = [x \in kept \cup {k} |-> IF x = k THEN 0 ELSE m.freq[x]]]

MemKeys == {Key("t:op", hash_value(StrV(x))) : x \in {"a", "b", "c"}}
MemSizes == {1, 2}

MemCall(name, k) ==
  [NoCall EXCEPT !.call = name, !.op_name = k[1], !.digest = k[2], !.pre = mem,
                 !.n = last.n + 1, !.touched = last.touched, !.reads = last.reads,
                 !.touched0 = last.touched, !.reads0 = last.reads]

MemExists ==
  /\ last.n < MaxCalls
  /\ \E k \in MemKeys :
       /\ mem' = mem
       /\ last' = [MemCall("exists", k) EXCEPT !.res = bounded_exists(mem, k)]

(* touched and reads are the history of the calls themselves: when each    *)
(* held entry was last put or got, and how often it was got; touched0 and  *)
(* reads0 are that history as it was before the latest call.               *)
MemGet ==
  /\ last.n < MaxCalls
  /\ \E k \in MemKeys :
       LET g == bounded_get(mem, k)
       IN /\ mem' = g.m
          /\ last' = [MemCall("get", k) EXCEPT
                        !.r = g.r, !.ok = g.r.ok,
                        !.touched = IF g.r.ok
                                    THEN [x \in DOMAIN @ |-> IF x = k THEN last.n + 1 ELSE @[x]]
                                    ELSE @,
                        !.reads = IF g.r.ok
                                  THEN [x \in DOMAIN @ |-> IF x = k THEN @[x] + 1 ELSE @[x]]
                                  ELSE @]

MemPut ==
  /\ last.n < MaxCalls
  /\ \E k \in MemKeys, v \in {IntV(1)} :
       \E victim \in IF k \in DOMAIN mem.data \/ mem.data = EmptyTier
                     THEN {k} ELSE victims(mem) :
         /\ mem' = bounded_put(mem, k, v, victim)
         /\ last' = [MemCall("put", k) EXCEPT
                       !.v = v, !.ok = TRUE,
                       !.touched = [x \in DOMAIN mem'.data |->
                                      IF x = k THEN last.n + 1 ELSE last.touched[x]],
                       !.reads = [x \in DOMAIN mem'.data |->
                                    IF x = k /\ k \notin DOMAIN mem.data THEN 0
                                    ELSE last.reads[x]]]

InitMemory ==
  /\ mem \in {NewMem(p, n) : p \in {"lru", "lfu"}, n \in MemSizes}
  /\ last = [NoCall EXCEPT !.pre = mem]
  /\ disk = NoDisk
  /\ OthersIdle
  /\ store = NewStore("null")
  /\ graph = [n \in {} |-> NoneV]
  /\ context = EmptyTier
  /\ useRegistry = TRUE
  /\ faults = 0
  /\ pc = "off"
  /\ run = 0
  /\ order = <<>>
  /\ sorted_nodes = <<>>
  /\ idx = 0
  /\ artifacts_by_node = EmptyTier
  /\ err = ""
  /\ events = <<>>
  /\ gdeps = [n \in {} |-> <<>>]
  /\ gctx = {}
  /\ gphase = "off"
  /\ gcycle = FALSE
  /\ gsort = [ok |-> FALSE, err |-> "", result |-> <<>>]
  /\ gvalid = ""
  /\ giter = <<>>

MemUnchanged ==
  UNCHANGED <<graph, context, useRegistry, store, faults, pc, run, order,
              sorted_nodes, idx, artifacts_by_node, err, events, disk, registry,
              call>>

NextMemory ==
  \/ MemExists /\ MemUnchanged /\ UNCHANGED graphVars
  \/ MemGet /\ MemUnchanged /\ UNCHANGED graphVars
  \/ MemPut /\ MemUnchanged /\ UNCHANGED graphVars

SpecMemory == InitMemory /\ [][NextMemory]_vars

(***************************************************************************)
(* DiskStore under concurrency: threads (or processes) that put the same   *)
(* key while another reads it.  put is three steps on the file system:     *)
(* open(temp_path, "wb"), which creates the temp file or truncates the one *)
(* that is there; the write and the close at the end of the with block;    *)
(* temp_path.replace(path).  temp_path depends on the key alone, so the    *)
(* writers of one key share it.  names maps the two file names to inodes   *)
(* (0: no such file) and inodes holds the content of each inode.           *)
(***************************************************************************)
Writers == {1, 2}
DiskValues == {IntegerV(1), IntV(1)}
IdleWriter == [pc |-> "idle", fd |-> 0, v |-> NoneV, err |-> ""]

(* put, lines 94-102: a value without to_stream raises before any file is  *)
(* touched.                                                                *)
put_serialize(d, t, v) ==
  IF v.t # "icac"
  THEN [d EXCEPT !.w[t] = [pc |-> "failed", fd |-> 0, v |-> v, err |-> "attribute_error"],
                 !.n = @ + 1]
  ELSE [d EXCEPT !.w[t] = [pc |-> "serialized", fd |-> 0, v |-> v, err |-> ""],
                 !.n = @ + 1]

(* open(temp_path, "wb") *)
put_open(d, t) ==
  IF d.names.tmp = 0
  THEN [d EXCEPT !.inodes = Append(@, EmptyFile),
                 !.names.tmp = Len(d.inodes) + 1,
                 !.w[t].pc = "opened", !.w[t].fd = Len(d.inodes) + 1]
  ELSE [d EXCEPT !.inodes[d.names.tmp] = EmptyFile,
                 !.w[t].pc = "opened", !.w[t].fd = d.names.tmp]

(* f.write(combined) and the close that flushes it *)
put_write(d, t) ==
  [d EXCEPT !.inodes[d.w[t].fd] = encode_file(d.w[t].v), !.w[t].pc = "closed"]

(* temp_path.replace(path) *)
put_replace(d, t) ==
  IF d.names.tmp = 0
  THEN [d EXCEPT !.w[t].pc = "failed", !.w[t].err = "file_not_found"]
  ELSE [d EXCEPT !.names.path = d.names.tmp, !.names.tmp = 0, !.w[t].pc = "done"]

(* exists: path.exists() *)
path_exists(d) == d.names.path # 0

(* get, lines 66-71: the check that the file is there *)
get_check(d) ==
  IF path_exists(d) THEN [d EXCEPT !.rd = [pc |-> "checked", r |-> Fail("")], !.n = @ + 1]
  ELSE [d EXCEPT !.rd = [pc |-> "idle", r |-> Fail("not_found")], !.n = @ + 1]

(* get, lines 74-90: read the file and decode it; a file with no bytes has *)
(* an empty type name, which rsplit cannot split.                          *)
get_read(d) ==
  LET f == d.inodes[d.names.path]
  IN [d EXCEPT !.rd = [pc |-> "idle",
                       r |-> IF f = EmptyFile THEN Fail("value_error")
                             ELSE Ok(decode_file(f))]]

PutStart ==
  /\ disk.n < MaxCalls
  /\ \E t \in Writers, v \in DiskValues :
       /\ disk.w[t].pc \in {"idle", "done", "failed"}
       /\ disk' = put_serialize(disk, t, v)

PutOpen == \E t \in Writers : disk.w[t].pc = "serialized" /\ disk' = put_open(disk, t)

PutWrite == \E t \in Writers : disk.w[t].pc = "opened" /\ disk' = put_write(disk, t)

PutReplace == \E t \in Writers : disk.w[t].pc = "closed" /\ disk' = put_replace(disk, t)

GetCheck == disk.n < MaxCalls /\ disk.rd.pc = "idle" /\ disk' = get_check(disk)

GetRead == disk.rd.pc = "checked" /\ disk' = get_read(disk)

(* The cache directory is empty or holds a complete file of the key. *)
InitDisk ==
  /\ disk \in {[NoDisk EXCEPT !.w = [t \in Writers |-> IdleWriter], !.rd.pc = "idle"],
               [NoDisk EXCEPT !.w = [t \in Writers |-> IdleWriter], !.rd.pc = "idle",
                              !.names.path = 1,
                              !.inodes = <<encode_file(IntegerV(0 - 1))>>]}
  /\ last = NoCall
  /\ mem = NoMem
  /\ OthersIdle
  /\ store = NewStore("disk")
  /\ graph = [n \in {} |-> NoneV]
  /\ context = EmptyTier
  /\ useRegistry = TRUE
  /\ faults = 0
  /\ pc = "off"
  /\ run = 0
  /\ order = <<>>
  /\ sorted_nodes = <<>>
  /\ idx = 0
  /\ artifacts_by_node = EmptyTier
  /\ err = ""
  /\ events = <<>>
  /\ gdeps = [n \in {} |-> <<>>]
  /\ gctx = {}
  /\ gphase = "off"
  /\ gcycle = FALSE
  /\ gsort = [ok |-> FALSE, err |-> "", result |-> <<>>]
  /\ gvalid = ""
  /\ giter = <<>>

DiskUnchanged ==
  UNCHANGED <<graph, context, useRegistry, store, faults, pc, run, order,
              sorted_nodes, idx, artifacts_by_node, err, events, last, mem,
              registry, call>>

NextDisk ==
  \/ PutStart /\ DiskUnchanged /\ UNCHANGED graphVars
  \/ PutOpen /\ DiskUnchanged /\ UNCHANGED graphVars
  \/ PutWrite /\ DiskUnchanged /\ UNCHANGED graphVars
  \/ PutReplace /\ DiskUnchanged /\ UNCHANGED graphVars
  \/ GetCheck /\ DiskUnchanged /\ UNCHANGED graphVars
  \/ GetRead /\ DiskUnchanged /\ UNCHANGED graphVars

SpecDisk == InitDisk /\ [][NextDisk]_vars

(***************************************************************************)
(* Executor.  process_vertex is one iteration of the loop of execute; it   *)
(* returns the new store and artifact table together with a record of the  *)
(* calls the iteration made (what a counting wrapper around the operation  *)
(* and an instrumented store observe).                                     *)
(***************************************************************************)
EmptyManifest == [k \in {} |-> NoneV]

deps_set(node) == {node.deps[k] : k \in 1..Len(node.deps)}

(* Variant: every dep's artifact is also injected under the dep's id. *)
_build_manifest_inject_deps(node, artifacts) ==
  IF \E d \in deps_set(node) : d \notin DOMAIN artifacts
  THEN [ok |-> FALSE, err |-> "artifact_not_found", m |-> EmptyManifest]
  ELSE LET r == resolve_params(node.params, [d \in deps_set(node) |-> artifacts[d]])
       IN IF r.ok
          THEN [r EXCEPT !.m = [k \in DOMAIN r.m \cup deps_set(node) |->
                                  IF k \in DOMAIN r.m THEN r.m[k] ELSE artifacts[k]]]
          ELSE [ok |-> FALSE, err |-> r.err, m |-> EmptyManifest]

_build_manifest(node, artifacts) ==
  IF \E d \in deps_set(node) : d \notin DOMAIN artifacts
  THEN [ok |-> FALSE, err |-> "artifact_not_found", m |-> EmptyManifest]
  ELSE LET r == resolve_params(node.params, [d \in deps_set(node) |-> artifacts[d]])
       IN IF r.ok THEN r ELSE [ok |-> FALSE, err |-> r.err, m |-> EmptyManifest]

NoEvent(node_id, node) ==
  [node |-> node_id, op_name |-> node.op_name, has_manifest |-> FALSE,
   has_digest |-> FALSE,
   manifest |-> EmptyManifest, digest |-> Concat(<<>>),
   exists_called |-> FALSE, hit |-> FALSE, get_called |-> FALSE, got |-> NoneV,
   invoked |-> FALSE, called |-> FALSE, put_called |-> FALSE,
   bound |-> FALSE, artifact |-> NoneV, err |-> "", held_before |-> FALSE,
   held_after |-> FALSE]

Aborted(e, st, artifacts, ev, io) ==
  [ok |-> FALSE, err |-> e, st |-> st, artifacts |-> artifacts,
   ev |-> [ev EXCEPT !.err = e], io |-> io]

(* Variant: a name already in the table keeps its binding. *)
Bind_setdefault(artifacts, node_id, artifact) ==
  [x \in DOMAIN artifacts \cup {node_id} |->
     IF x \in DOMAIN artifacts THEN artifacts[x] ELSE artifact]

Bind(artifacts, node_id, artifact) ==
  [x \in DOMAIN artifacts \cup {node_id} |-> IF x = node_id THEN artifact ELSE artifacts[x]]

(* Variant: on a hit the operation is invoked as well. *)
cache_hit_recompute(node_id, node, artifacts, st, io_fail, ev) ==
  LET g == store_get(st, node.op_name, ev.digest, io_fail)
      r == _invoke_op(node.op_name, ev.manifest)
      ev1 == [ev EXCEPT !.get_called = TRUE, !.got = g.r.v, !.invoked = TRUE,
                        !.called = r.err # "missing_param",
                        !.held_after = Holds(g.st, node.op_name, ev.digest)]
  IN IF ~g.r.ok THEN Aborted(g.r.err, g.st, artifacts, ev1, g.io)
     ELSE [ok |-> TRUE, err |-> "", st |-> g.st, io |-> g.io,
           artifacts |-> Bind(artifacts, node_id, g.r.v),
           ev |-> [ev1 EXCEPT !.bound = TRUE, !.artifact = g.r.v]]

cache_hit(node_id, node, artifacts, st, io_fail, ev) ==
  LET g == store_get(st, node.op_name, ev.digest, io_fail)
      ev1 == [ev EXCEPT !.get_called = TRUE, !.got = g.r.v,
                        !.held_after = Holds(g.st, node.op_name, ev.digest)]
  IN IF ~g.r.ok THEN Aborted(g.r.err, g.st, artifacts, ev1, g.io)
     ELSE [ok |-> TRUE, err |-> "", st |-> g.st, io |-> g.io,
           artifacts |-> Bind(artifacts, node_id, g.r.v),
           ev |-> [ev1 EXCEPT !.bound = TRUE, !.artifact = g.r.v]]

(* Variant: the result is persisted under the digest of the artifact. *)
cache_miss_artifact_key(node_id, node, artifacts, st, io_fail, ev) ==
  IF node.op_name \notin Registered
  THEN Aborted("op_not_registered", st, artifacts, ev, FALSE)
  ELSE LET r == _invoke_op(node.op_name, ev.manifest)
           ev1 == [ev EXCEPT !.invoked = TRUE, !.called = r.err # "missing_param"]
       IN IF ~r.ok THEN Aborted(r.err, st, artifacts, ev1, FALSE)
          ELSE LET w == store_put(st, node.op_name, hash_value(r.v), r.v, io_fail)
                   ev2 == [ev1 EXCEPT !.put_called = TRUE,
                                      !.held_after = Holds(w.st, node.op_name, ev.digest)]
               IN IF ~w.ok THEN Aborted("store_error", w.st, artifacts, ev2, w.io)
                  ELSE [ok |-> TRUE, err |-> "", st |-> w.st, io |-> w.io,
                        artifacts |-> Bind(artifacts, node_id, r.v),
                        ev |-> [ev2 EXCEPT !.bound = TRUE, !.artifact = r.v]]

cache_miss(node_id, node, artifacts, st, io_fail, ev) ==
  IF node.op_name \notin Registered
  THEN Aborted("op_not_registered", st, artifacts, ev, FALSE)
  ELSE LET r == _invoke_op(node.op_name, ev.manifest)
           ev1 == [ev EXCEPT !.invoked = TRUE, !.called = r.err # "missing_param"]
       IN IF ~r.ok THEN Aborted(r.err, st, artifacts, ev1, FALSE)
          ELSE LET w == store_put(st, node.op_name, ev.digest, r.v, io_fail)
                   ev2 == [ev1 EXCEPT !.put_called = TRUE,
                                      !.held_after = Holds(w.st, node.op_name, ev.digest)]
               IN IF ~w.ok THEN Aborted("store_error", w.st, artifacts, ev2, w.io)
                  ELSE [ok |-> TRUE, err |-> "", st |-> w.st, io |-> w.io,
                        artifacts |-> Bind(artifacts, node_id, r.v),
                        ev |-> [ev2 EXCEPT !.bound = TRUE, !.artifact = r.v]]

process_vertex(node_id, node, artifacts, st, io_fail) ==
  LET ev0 == NoEvent(node_id, node)
      mf == _build_manifest(node, artifacts)
  IN IF ~mf.ok THEN Aborted(mf.err, st, artifacts, ev0, FALSE)
     ELSE IF ~manifest_hashable(mf.m)
     THEN Aborted("hash_error", st, artifacts,
                  [ev0 EXCEPT !.manifest = mf.m, !.has_manifest = TRUE], FALSE)
     ELSE IF node.kind = "subgraph"
     THEN Aborted("attribute_error", st, artifacts,
                  [ev0 EXCEPT !.manifest = mf.m, !.has_manifest = TRUE,
                              !.has_digest = TRUE, !.digest = hash_manifest(mf.m)],
                  FALSE)
     ELSE LET digest == hash_manifest(mf.m)
              x == store_exists(st, node.op_name, digest)
              ev1 == [ev0 EXCEPT !.manifest = mf.m, !.has_manifest = TRUE,
                                 !.has_digest = TRUE,
                                 !.digest = digest, !.exists_called = TRUE,
                                 !.hit = x.res,
                                 !.held_before = Holds(st, node.op_name, digest),
                                 !.held_after = Holds(st, node.op_name, digest)]
          IN IF x.res
             THEN cache_hit(node_id, node, artifacts, x.st, io_fail, ev1)
             ELSE cache_miss(node_id, node, artifacts, x.st, io_fail, ev1)

(***************************************************************************)
(* Inputs of the executor model: graphs of three vertices drawn from       *)
(* bounded sets of nodes, a context over the key "x", a store and the      *)
(* iteration order of the vertex-id set.  Every node satisfies the check   *)
(* of Node.__post_init__: each ref marker names a declared dep.            *)
(***************************************************************************)
Node(op_name, params, deps, cache) ==
  [kind |-> "node", op_name |-> op_name, params |-> params, deps |-> deps,
   cache |-> cache, graph |-> <<>>, output |-> ""]

(* A SubGraphNode has params, deps, graph and output and neither op_name   *)
(* nor cache: reading either raises AttributeError.  The record keeps the  *)
(* two fields, with values that are never read, so that all vertices have  *)
(* one shape.                                                              *)
SubGraphNode(params, deps, g, output) ==
  [kind |-> "subgraph", op_name |-> "", params |-> params, deps |-> deps,
   cache |-> TRUE, graph |-> g, output |-> output]

(* A nested param value: a dict (its values, in order), a list or a tuple   *)
(* of param values.                                                        *)
Nested(c, elems) == [k |-> c, v |-> NoneV, dep |-> "", e |-> NoExpr, elems |-> elems]

(* _collect_refs descends into dicts and lists and into nothing else. *)
RECURSIVE _collect_refs(_)
_collect_refs(value) ==
  IF value.k = "ref" THEN {value.dep}
  ELSE IF value.k \in {"dict", "list"}
  THEN UNION {_collect_refs(value.elems[i]) : i \in DOMAIN value.elems}
  ELSE {}

(* _validate_refs; params itself is a dict. *)
_validate_refs(node) ==
  UNION {_collect_refs(node.params[k]) : k \in DOMAIN node.params} \subseteq deps_set(node)

(* Node.__post_init__ and SubGraphNode.__post_init__ *)
__post_init__(node) ==
  IF node.kind = "node" /\ node.op_name = "" THEN Fail("op_name_empty")
  ELSE IF node.kind = "subgraph" /\ node.output \notin DOMAIN node.graph
  THEN Fail("output_not_in_graph")
  ELSE IF ~_validate_refs(node) THEN Fail("undeclared_ref")
  ELSE Ok(NoneV)

NoParams == [k \in {} |-> Lit(NoneV)]
Value(pv) == [k \in {"value"} |-> pv]

Nodes1 ==
  { Node("identity", Value(Lit(IntV(1))), <<>>, TRUE),
    Node("identity", Value(Lit(StrV("1"))), <<>>, TRUE),
    Node("identity", Value(Lit(IntegerV(1))), <<>>, TRUE),
    Node("identity", Value(Lit(BytesV("1"))), <<>>, TRUE),
    Node("identity", Value(Lit(FloatV)), <<>>, TRUE),
    Node("identity", NoParams, <<>>, TRUE),
    Node("add_one", Value(Lit(StrV("1"))), <<>>, TRUE),
    Node("unknown_op", NoParams, <<>>, TRUE),
    Node("identity", Value(Lit(IntV(1))), <<>>, FALSE),
    Node("identity", Value(Ref("n2")), <<"n2">>, TRUE),
    Node("identity", Value(Lit(IntV(1))), <<"zz">>, TRUE) }

Nodes2 ==
  { Node("identity", Value(Lit(IntV(1))), <<>>, TRUE),
    Node("identity", Value(Lit(StrV("1"))), <<>>, TRUE),
    Node("identity", Value(Ref("n1")), <<"n1">>, TRUE),
    Node("identity", Value(Cel("var", "n1", "")), <<"n1">>, TRUE),
    Node("add_one", Value(Ref("n1")), <<"n1">>, TRUE),
    Node("identity", Value(Lit(IntV(1))), <<"n1">>, TRUE),
    Node("identity", Value(Cel("var", "n1", "")), <<>>, TRUE),
    Node("identity", Value(Ref("x")), <<"x">>, TRUE) }

Nodes3 ==
  { Node("identity", Value(Lit(IntV(1))), <<>>, TRUE),
    Node("identity", Value(Ref("n2")), <<"n2">>, FALSE),
    Node("identity", Value(Cel("min", "n1", "n2")), <<"n1", "n2">>, TRUE),
    Node("identity", Value(Cel("max", "n2", "x")), <<"n2", "x">>, TRUE),
    Node("count_op", NoParams, <<"n1">>, TRUE),
    Node("add_one", NoParams, <<>>, TRUE),
    SubGraphNode([k \in {"source"} |-> Ref("n1")], <<"n1">>,
                 [k \in {"pass"} |-> Node("identity", Value(Ref("source")),
                                           <<"source">>, TRUE)],
                 "pass") }

Graphs == {[n \in Ids |-> CASE n = "n1" -> a [] n = "n2" -> b [] OTHER -> c] :
             a \in Nodes1, b \in Nodes2, c \in Nodes3}

NoContext == [k \in {} |-> NoneV]
Contexts == {NoContext, [k \in {"x"} |-> IntV(1)], [k \in {"x"} |-> FloatV]}

StoreKinds == {"null", "memory", "disk", "chain"}

Reverse(q) == [k \in 1..Len(q) |-> q[Len(q) + 1 - k]]
Orders == {IdOrder, Reverse(IdOrder)}

GraphIdle ==
  /\ gdeps = [n \in {} |-> <<>>]
  /\ gctx = {}
  /\ gphase = "off"
  /\ gcycle = FALSE
  /\ gsort = [ok |-> FALSE, err |-> "", result |-> <<>>]
  /\ gvalid = ""
  /\ giter = <<>>

Init ==
  /\ graph \in Graphs
  /\ \A n \in DOMAIN graph : _validate_refs(graph[n])
  /\ context \in Contexts
  /\ useRegistry \in BOOLEAN
  /\ useRegistry \/ \E n \in DOMAIN graph :
                       graph[n].kind = "subgraph" \/ graph[n].op_name \notin Registered
  /\ store \in {NewStore(k) : k \in StoreKinds}
  /\ faults = 0
  /\ pc = "idle"
  /\ run = 1
  /\ order \in Orders
  /\ sorted_nodes = <<>>
  /\ idx = 0
  /\ artifacts_by_node = NoContext
  /\ err = ""
  /\ events = <<>>
  /\ GraphIdle
  /\ StoreIdle

(* Variant: the context is seeded without the cacheability check. *)
ExecuteStart_unchecked ==
  /\ pc = "idle"
  /\ LET r == resolve(graph, DOMAIN context, useRegistry, order)
     IN IF ~r.ok
        THEN /\ pc' = "error" /\ err' = r.err
             /\ UNCHANGED <<sorted_nodes, idx, artifacts_by_node>>
        ELSE /\ pc' = "running" /\ err' = ""
             /\ sorted_nodes' = r.result
             /\ idx' = 1
             /\ artifacts_by_node' = context
  /\ UNCHANGED <<graph, context, useRegistry, store, faults, run, order, events>>
  /\ UNCHANGED graphVars
  /\ UNCHANGED storeVars

(* execute, lines 59-75: resolve the graph, then seed the table with the   *)
(* context, whose values must be cacheable.                                *)
ExecuteStart ==
  /\ pc = "idle"
  /\ LET r == resolve(graph, DOMAIN context, useRegistry, order)
     IN IF ~r.ok
        THEN /\ pc' = "error" /\ err' = r.err
             /\ UNCHANGED <<sorted_nodes, idx, artifacts_by_node>>
        ELSE IF \E k \in DOMAIN context : ~is_cacheable(context[k])
        THEN /\ pc' = "error" /\ err' = "context_not_cacheable"
             /\ sorted_nodes' = r.result
             /\ UNCHANGED <<idx, artifacts_by_node>>
        ELSE /\ pc' = "running" /\ err' = ""
             /\ sorted_nodes' = r.result
             /\ idx' = 1
             /\ artifacts_by_node' = context
  /\ UNCHANGED <<graph, context, useRegistry, store, faults, run, order, events>>
  /\ UNCHANGED graphVars
  /\ UNCHANGED storeVars

(* execute, lines 78-97: one iteration of the loop over sorted_nodes. *)
ExecuteVertex ==
  /\ pc = "running"
  /\ idx <= Len(sorted_nodes)
  /\ \E io_fail \in BOOLEAN :
       /\ io_fail => faults < MaxFaults
       /\ LET node_id == sorted_nodes[idx]
              r == process_vertex(node_id, graph[node_id], artifacts_by_node, store, io_fail)
          IN /\ io_fail => r.io
             /\ store' = r.st
             /\ artifacts_by_node' = r.artifacts
             /\ events' = Append(events, [run |-> run, e |-> r.ev])
             /\ faults' = IF io_fail THEN faults + 1 ELSE faults
             /\ IF r.ok
                THEN /\ idx' = idx + 1 /\ UNCHANGED <<pc, err>>
                ELSE /\ pc' = "error" /\ err' = r.err /\ UNCHANGED idx
  /\ UNCHANGED <<graph, context, useRegistry, run, order, sorted_nodes>>
  /\ UNCHANGED graphVars
  /\ UNCHANGED storeVars

(* execute, line 99: the loop is over and the table is returned. *)
ExecuteReturn ==
  /\ pc = "running"
  /\ idx > Len(sorted_nodes)
  /\ pc' = "done"
  /\ UNCHANGED <<graph, context, useRegistry, store, faults, run, order,
                 sorted_nodes, idx, artifacts_by_node, err, events>>
  /\ UNCHANGED graphVars
  /\ UNCHANGED storeVars

(* The caller runs the same graph again with the same context and store;   *)
(* the new call may iterate the id set in another order.                   *)
Rerun ==
  /\ pc \in {"done", "error"}
  /\ run < MaxRuns
  /\ run' = run + 1
  /\ pc' = "idle"
  /\ order' \in Orders
  /\ sorted_nodes' = <<>>
  /\ idx' = 0
  /\ artifacts_by_node' = NoContext
  /\ err' = ""
  /\ UNCHANGED <<graph, context, useRegistry, store, faults, events>>
  /\ UNCHANGED graphVars
  /\ UNCHANGED storeVars

Next == ExecuteStart \/ ExecuteVertex \/ ExecuteReturn \/ Rerun

Spec == Init /\ [][Next]_vars

(* execute is sequential code: once called it takes its next step, so the  *)
(* steps of execute are weakly fair; the caller need not run the graph     *)
(* again.  A step of execute is enabled exactly when pc is "idle" or       *)
(* "running" (ExecuteStart has no other guard, and the loop either has a   *)
(* vertex left or returns), and every such step changes pc, idx or events, *)
(* so WF_vars(ExecuteStep) is written with that state predicate in place   *)
(* of ENABLED <<ExecuteStep>>_vars.                                        *)
ExecuteStep == ExecuteStart \/ ExecuteVertex \/ ExecuteReturn

ExecuteEnabled == pc \in {"idle", "running"}

SpecExecute ==
  /\ Init
  /\ [][Next]_vars
  /\ ([]<>(~ExecuteEnabled) \/ []<><<ExecuteStep>>_vars)

(***************************************************************************)
(* An executor over a NullStore whose caller also uses the store directly  *)
(* before a run, as the tests of NullStore do.                             *)
(***************************************************************************)
InitNull ==
  /\ Init
  /\ store = NewStore("null")
  /\ useRegistry
  /\ order = IdOrder
  /\ \A k \in DOMAIN context : is_cacheable(context[k])

DirectExists == pc = "idle" /\ ExistsCall /\ StoreUnchanged /\ UNCHANGED graphVars
DirectGet == pc = "idle" /\ GetCall /\ StoreUnchanged /\ UNCHANGED graphVars
DirectPut == pc = "idle" /\ PutCall /\ StoreUnchanged /\ UNCHANGED graphVars

NextNull ==
  \/ ExecuteStart
  \/ ExecuteVertex
  \/ ExecuteReturn
  \/ Rerun
  \/ DirectExists
  \/ DirectGet
  \/ DirectPut

SpecNull == InitNull /\ [][NextNull]_vars

(***************************************************************************)
(* Executor runs whose context has a key that is also a vertex id.  The    *)
(* context value, 7, is one no vertex of the graphs produces.              *)
(***************************************************************************)
ShadowContexts ==
  {[k \in {"n1"} |-> IntV(7)], [k \in {"n2"} |-> IntV(7)],
   [k \in {"n1", "x"} |-> IF k = "x" THEN IntV(1) ELSE IntV(7)]}

InitShadow ==
  /\ graph \in Graphs
  /\ \A n \in DOMAIN graph : _validate_refs(graph[n])
  /\ context \in ShadowContexts
  /\ useRegistry = TRUE
  /\ store \in {NewStore(k) : k \in {"null", "memory"}}
  /\ faults = 0
  /\ pc = "idle"
  /\ run = 1
  /\ order \in Orders
  /\ sorted_nodes = <<>>
  /\ idx = 0
  /\ artifacts_by_node = NoContext
  /\ err = ""
  /\ events = <<>>
  /\ GraphIdle
  /\ StoreIdle

SpecShadow == InitShadow /\ [][Next]_vars

(***************************************************************************)
(* Executor runs in which a float turns up in each place a value can come  *)
(* from: a context value, a literal param, an expression's result and an   *)
(* operation's return value, bare or inside a list, tuple or dict.         *)
(***************************************************************************)
FloatNodes1 ==
  { Node("identity", Value(Lit(IntV(1))), <<>>, TRUE),
    Node("identity", Value(Lit(ListV(<<IntV(1)>>))), <<>>, TRUE),
    Node("identity", Value(Lit(FloatV)), <<>>, TRUE),
    Node("identity", Value(Lit(ListV(<<FloatV>>))), <<>>, TRUE),
    Node("identity", Value(Lit(DictV([k \in {"a"} |-> TupleV(<<FloatV>>)]))), <<>>, TRUE),
    Node("identity", Value(Cel("double", "", "")), <<>>, TRUE),
    Node("identity", Value(Cel("list_double", "", "")), <<>>, TRUE),
    Node("half", NoParams, <<>>, TRUE),
    Node("halves", NoParams, <<>>, TRUE) }

FloatNodes2 ==
  { Node("identity", Value(Ref("n1")), <<"n1">>, TRUE),
    Node("identity", Value(Ref("x")), <<"x">>, TRUE),
    Node("add_one", Value(Lit(IntV(1))), <<>>, TRUE) }

FloatNodes3 ==
  { Node("identity", Value(Lit(IntV(1))), <<>>, TRUE),
    Node("half", NoParams, <<"n2">>, TRUE) }

FloatGraphs == {[n \in Ids |-> CASE n = "n1" -> a [] n = "n2" -> b [] OTHER -> c] :
                  a \in FloatNodes1, b \in FloatNodes2, c \in FloatNodes3}

FloatContexts ==
  {NoContext, [k \in {"x"} |-> IntV(1)], [k \in {"x"} |-> FloatV],
   [k \in {"x"} |-> TupleV(<<FloatV>>)],
   [k \in {"x"} |-> DictV([j \in {"a"} |-> ListV(<<FloatV>>)])]}

InitFloat ==
  /\ graph \in FloatGraphs
  /\ context \in FloatContexts
  /\ useRegistry = TRUE
  /\ store \in {NewStore(k) : k \in StoreKinds}
  /\ faults = 0
  /\ pc = "idle"
  /\ run = 1
  /\ order = IdOrder
  /\ sorted_nodes = <<>>
  /\ idx = 0
  /\ artifacts_by_node = NoContext
  /\ err = ""
  /\ events = <<>>
  /\ GraphIdle
  /\ StoreIdle

SpecFloat == InitFloat /\ [][Next]_vars

(***************************************************************************)
(* The resolver on its own: validate, _has_cycle and topological_sort are  *)
(* called on graphs whose deps lists range over all short lists of vertex  *)
(* ids and the name "x" (a context key or a missing name), repeated        *)
(* entries included.                                                       *)
(***************************************************************************)
DepNames == <<"n1", "n2", "n3", "x">>

DepLists ==
  {<<>>} \cup {<<DepNames[a]>> : a \in DOMAIN DepNames}
         \cup {<<DepNames[p[1]], DepNames[p[2]]>> :
                  p \in {q \in (DOMAIN DepNames) \X (DOMAIN DepNames) : q[1] < q[2]}}
         \cup {<<a, a>> : a \in Ids}

ContextKeySets == {{}, {"x"}, {"x", "n1"}}

ExecIdle ==
  /\ graph = [n \in {} |-> Node("", NoParams, <<>>, TRUE)]
  /\ context = NoContext
  /\ store = NewStore("null")
  /\ faults = 0
  /\ pc = "off"
  /\ run = 0
  /\ order = <<>>
  /\ sorted_nodes = <<>>
  /\ idx = 0
  /\ artifacts_by_node = NoContext
  /\ err = ""
  /\ events = <<>>

InitGraph ==
  /\ \E d1 \in DepLists, d2 \in DepLists, d3 \in DepLists,
        op1 \in {"identity", "unknown_op"} :
       gdeps = [n \in Ids |->
                  CASE n = "n1" -> Node(op1, NoParams, d1, TRUE)
                    [] n = "n2" -> Node("identity", NoParams, d2, TRUE)
                    [] OTHER -> Node("count_op", NoParams, d3, TRUE)]
  /\ gctx \in ContextKeySets
  /\ useRegistry \in BOOLEAN
  /\ useRegistry \/ gdeps["n1"].op_name \notin Registered
  /\ gphase = "new"
  /\ gcycle = FALSE
  /\ gsort = [ok |-> FALSE, err |-> "", result |-> <<>>]
  /\ gvalid = ""
  /\ giter = <<>>
  /\ ExecIdle
  /\ StoreIdle

HasCycleCall ==
  /\ gphase = "new"
  /\ \E iter \in Perms(DOMAIN gdeps) : gcycle' = _has_cycle(gdeps, iter)
  /\ gphase' = "cycle"
  /\ UNCHANGED <<gdeps, gctx, gsort, gvalid, giter>>
  /\ UNCHANGED execVars
  /\ UNCHANGED storeVars

TopologicalSortCall ==
  /\ gphase = "new"
  /\ \E iter \in Perms(DOMAIN gdeps) :
       /\ gsort' = topological_sort(gdeps, iter)
       /\ giter' = iter
  /\ gphase' = "sorted"
  /\ UNCHANGED <<gdeps, gctx, gcycle, gvalid>>
  /\ UNCHANGED execVars
  /\ UNCHANGED storeVars

ValidateCall ==
  /\ gphase = "new"
  /\ \E iter \in Perms(DOMAIN gdeps) : gvalid' = validate(gdeps, gctx, useRegistry, iter)
  /\ gphase' = "validated"
  /\ UNCHANGED <<gdeps, gctx, gcycle, gsort, giter>>
  /\ UNCHANGED execVars
  /\ UNCHANGED storeVars

NextGraph == HasCycleCall \/ TopologicalSortCall \/ ValidateCall

SpecGraph == InitGraph /\ [][NextGraph]_vars

(***************************************************************************)
(* OpRegistry.  _ops maps full names to callables (named here by texts);   *)
(* a package is a dict, given as the sequence of its items in iteration    *)
(* order.  registry also records the latest call: its arguments, whether   *)
(* it returned, and _ops before it.                                        *)
(***************************************************************************)
register(ops, name, op) ==
  IF name = "" THEN [ok |-> FALSE, err |-> "value_error", ops |-> ops]
  ELSE IF name \in DOMAIN ops THEN [ok |-> FALSE, err |-> "value_error", ops |-> ops]
  ELSE [ok |-> TRUE, err |-> "",
        ops |-> [k \in DOMAIN ops \cup {name} |-> IF k = name THEN op ELSE ops[k]]]

full_name(prefix, name) == prefix \o ":" \o name

(* register_package, lines 120-122: the loop over ops_dict.items() from    *)
(* item k on; the first register that raises ends the call.                *)
RECURSIVE register_each(_, _, _, _)
register_each(ops, prefix, ops_dict, k) ==
  IF k > Len(ops_dict) THEN [ok |-> TRUE, err |-> "", ops |-> ops]
  ELSE LET r == register(ops, full_name(prefix, ops_dict[k][1]), ops_dict[k][2])
       IN IF r.ok THEN register_each(r.ops, prefix, ops_dict, k + 1) ELSE r

register_package(ops, prefix, ops_dict) ==
  IF prefix = "" THEN [ok |-> FALSE, err |-> "value_error", ops |-> ops]
  ELSE register_each(ops, prefix, ops_dict, 1)

Prefixes == {"p", "q", ""}
ShortNames == {"a", "b"}
FullNames == {"p:a", "p:b", "q:a", ""}
Callables == {"f", "g"}
(* The dicts over ShortNames, in each insertion order. *)
Packages ==
  {<<>>} \cup {<<<<x, "f">>>> : x \in ShortNames}
         \cup {<<<<xy[1], "f">>, <<xy[2], "g">>>> :
                 xy \in {z \in ShortNames \X ShortNames : z[1] # z[2]}}

RegistryCall(name, r) ==
  [registry EXCEPT !._ops = r.ops, !.n = @ + 1, !.call = name, !.ok = r.ok,
                   !.err = r.err, !.pre = registry._ops]

RegisterCall ==
  /\ registry.n < MaxCalls
  /\ \E name \in FullNames, op \in Callables :
       registry' = [RegistryCall("register", register(registry._ops, name, op))
                      EXCEPT !.prefix = name, !.ops = <<>>]

RegisterPackageCall ==
  /\ registry.n < MaxCalls
  /\ \E prefix \in Prefixes, ops_dict \in Packages :
       registry' = [RegistryCall("register_package",
                                 register_package(registry._ops, prefix, ops_dict))
                      EXCEPT !.prefix = prefix, !.ops = ops_dict]

ClearCall ==
  /\ registry.n < MaxCalls
  /\ registry' = [RegistryCall("clear", [ok |-> TRUE, err |-> "", ops |-> NoRegistry._ops])
                    EXCEPT !.prefix = "", !.ops = <<>>]

InitRegistry ==
  /\ registry = NoRegistry
  /\ call = NoFunction
  /\ last = NoCall
  /\ mem = NoMem
  /\ disk = NoDisk
  /\ useRegistry = TRUE
  /\ ExecIdle
  /\ GraphIdle

RegistryUnchanged ==
  UNCHANGED <<graph, context, useRegistry, store, faults, pc, run, order,
              sorted_nodes, idx, artifacts_by_node, err, events, last, mem,
              disk, call>>

NextRegistry ==
  \/ RegisterCall /\ RegistryUnchanged /\ UNCHANGED graphVars
  \/ RegisterPackageCall /\ RegistryUnchanged /\ UNCHANGED graphVars
  \/ ClearCall /\ RegistryUnchanged /\ UNCHANGED graphVars

SpecRegistry == InitRegistry /\ [][NextRegistry]_vars

(***************************************************************************)
(* Construction of vertices: Node(...) and SubGraphNode(...) are called    *)
(* with params whose values nest markers in dicts, lists and tuples.       *)
(***************************************************************************)
MaxDepth == 2

ParamLeaves == {Lit(IntV(1)), Ref("y"), Ref("z")}
Containers == {"dict", "list", "tuple"}

RECURSIVE ParamValues(_)
ParamValues(depth) ==
  IF depth = 0 THEN ParamLeaves
  ELSE ParamValues(depth - 1)
       \cup {Nested(c, <<pv>>) : c \in Containers, pv \in ParamValues(depth - 1)}

DeclaredDeps == {<<>>, <<"y">>, <<"z">>, <<"y", "z">>}
InnerGraph == [k \in {"a"} |-> Node("op1", NoParams, <<>>, TRUE)]

Constructions ==
  {[fn |-> "construct", done |-> FALSE, r |-> Fail(""), node |-> nd] :
     nd \in {Node(op, Value(pv), deps, TRUE) :
               op \in {"op1", ""}, pv \in ParamValues(MaxDepth), deps \in DeclaredDeps}
          \cup {SubGraphNode(Value(pv), deps, InnerGraph, out) :
                  pv \in ParamValues(MaxDepth), deps \in DeclaredDeps, out \in {"a", "b"}}}

Construct ==
  /\ call.fn = "construct"
  /\ ~call.done
  /\ call' = [call EXCEPT !.done = TRUE, !.r = __post_init__(call.node)]

InitNode ==
  /\ call \in Constructions
  /\ registry = NoRegistry
  /\ last = NoCall
  /\ mem = NoMem
  /\ disk = NoDisk
  /\ useRegistry = TRUE
  /\ ExecIdle
  /\ GraphIdle

CallUnchanged ==
  UNCHANGED <<graph, context, useRegistry, store, faults, pc, run, order,
              sorted_nodes, idx, artifacts_by_node, err, events, last, mem,
              disk, registry>>

NextNode == Construct /\ CallUnchanged /\ UNCHANGED graphVars

SpecNode == InitNode /\ [][NextNode]_vars

(***************************************************************************)
(* _invoke_op on its own: operations of up to two named parameters, each   *)
(* required, with a default, or the variadic-by-name one (which comes      *)
(* last), called with manifests over the keys a, b and kw.  The operation  *)
(* records the keyword arguments it receives.                              *)
(***************************************************************************)
ParamKinds == {P(n, d, FALSE) : n \in {"a", "b"}, d \in BOOLEAN}
VarKw == P("kw", FALSE, TRUE)

Signatures ==
  {<<>>, <<VarKw>>}
    \cup {<<p>> : p \in ParamKinds}
    \cup {<<p, VarKw>> : p \in ParamKinds}
    \cup {<<pq[1], pq[2]>> : pq \in {z \in ParamKinds \X ParamKinds : z[1].name # z[2].name}}

ManifestKeys == {"a", "b", "kw"}
Manifests == {[k \in K |-> StrV(k)] : K \in SUBSET ManifestKeys}

Invocations ==
  {[fn |-> "_invoke_op", done |-> FALSE, sig |-> sg, manifest |-> m,
    called |-> FALSE, kwargs |-> EmptyManifest, r |-> Fail("")] :
     sg \in Signatures, m \in Manifests}

InvokeCall ==
  /\ call.fn = "_invoke_op"
  /\ ~call.done
  /\ LET b == bind_kwargs(call.sig, call.manifest)
     IN call' = [call EXCEPT !.done = TRUE,
                             !.called = b.ok,
                             !.kwargs = IF b.ok THEN b.kwargs ELSE EmptyManifest,
                             !.r = IF b.ok THEN Ok(NoneV) ELSE Fail("missing_param")]

InitInvoke ==
  /\ call \in Invocations
  /\ registry = NoRegistry
  /\ last = NoCall
  /\ mem = NoMem
  /\ disk = NoDisk
  /\ useRegistry = TRUE
  /\ ExecIdle
  /\ GraphIdle

NextInvoke == InvokeCall /\ CallUnchanged /\ UNCHANGED graphVars

SpecInvoke == InitInvoke /\ [][NextInvoke]_vars

(***************************************************************************)
(* resolve_params on its own: one param whose value nests literals, ref    *)
(* markers and a cel marker in dicts, lists and tuples up to MaxDepth      *)
(* deep, resolved against dependencies that bind both, one or none of the  *)
(* names y and z.                                                          *)
(***************************************************************************)
ResolveLeaves == ParamLeaves \cup {Cel("var", "y", "")}

RECURSIVE ResolveValues(_)
ResolveValues(depth) ==
  IF depth = 0 THEN ResolveLeaves
  ELSE ResolveValues(depth - 1)
       \cup {Nested(c, <<pv>>) : c \in Containers, pv \in ResolveValues(depth - 1)}
       \cup {Nested(c, <<Lit(IntV(1)), Ref("y")>>) : c \in Containers}

Dependencies ==
  {NoContext, [d \in {"y"} |-> IntV(1)],
   [d \in {"y", "z"} |-> IF d = "y" THEN IntV(1) ELSE StrV("a")]}

Resolutions ==
  {[fn |-> "resolve_params", done |-> FALSE, params |-> Value(pv), dependencies |-> ds,
    r |-> [ok |-> FALSE, err |-> "", m |-> EmptyManifest]] :
     pv \in ResolveValues(MaxDepth), ds \in Dependencies}

ResolveCall ==
  /\ call.fn = "resolve_params"
  /\ ~call.done
  /\ call' = [call EXCEPT !.done = TRUE,
                          !.r = resolve_params(call.params, call.dependencies)]

InitResolve ==
  /\ call \in Resolutions
  /\ registry = NoRegistry
  /\ last = NoCall
  /\ mem = NoMem
  /\ disk = NoDisk
  /\ useRegistry = TRUE
  /\ ExecIdle
  /\ GraphIdle

NextResolve == ResolveCall /\ CallUnchanged /\ UNCHANGED graphVars

SpecResolve == InitResolve /\ [][NextResolve]_vars

(***************************************************************************)
(* The cacheability predicate and the codec on their own: is_cacheable,    *)
(* serialize and deserialize applied to values of the cacheable types and  *)
(* to floats, nested in lists, tuples and dicts up to MaxDepth deep.  The  *)
(* ints include both ends of the signed 64-bit range and their outer       *)
(* neighbours.                                                             *)
(***************************************************************************)
CodecLeaves ==
  {NoneV, BoolV(TRUE), BoolV(FALSE), IntV(0), IntV(1), IntV(0 - 1),
   BigIntV("2^63", 0 - 1), BigIntV("-2^63", 0), BigIntV("2^63", 0),
   BigIntV("-2^63", 0 - 1), StrV(""), StrV("a"), DecimalV("1.5"), FloatV}

PairLeaves == {IntV(1), BoolV(TRUE), StrV("a")}

RECURSIVE CodecValues(_)
CodecValues(depth) ==
  IF depth = 0 THEN CodecLeaves
  ELSE LET inner == CodecValues(depth - 1)
       IN inner
            \cup {ListV(<<>>), TupleV(<<>>), DictV([k \in {} |-> NoneV])}
            \cup {ListV(<<x>>) : x \in inner}
            \cup {TupleV(<<x>>) : x \in inner}
            \cup {DictV([k \in {"a"} |-> x]) : x \in inner}
            \cup {ListV(<<xy[1], xy[2]>>) : xy \in PairLeaves \X PairLeaves}
            \cup {DictV([k \in {"a", "b"} |-> IF k = "a" THEN xy[1] ELSE xy[2]]) :
                    xy \in PairLeaves \X PairLeaves}

CodecCalls ==
  {[fn |-> "codec", v |-> x, checked |-> FALSE, cacheable |-> FALSE,
    encoded |-> FALSE, enc |-> [ok |-> FALSE, err |-> "", data |-> <<>>],
    decoded |-> FALSE, r |-> Fail("")] : x \in CodecValues(MaxDepth)}

IsCacheableCall ==
  /\ call.fn = "codec"
  /\ ~call.checked
  /\ call' = [call EXCEPT !.checked = TRUE, !.cacheable = is_cacheable(call.v)]

SerializeCall ==
  /\ call.fn = "codec"
  /\ ~call.encoded
  /\ call' = [call EXCEPT !.encoded = TRUE, !.enc = serialize(call.v)]

DeserializeCall ==
  /\ call.fn = "codec"
  /\ call.encoded
  /\ call.enc.ok
  /\ ~call.decoded
  /\ call' = [call EXCEPT !.decoded = TRUE, !.r = deserialize(call.enc.data)]

InitCodec ==
  /\ call \in CodecCalls
  /\ registry = NoRegistry
  /\ last = NoCall
  /\ mem = NoMem
  /\ disk = NoDisk
  /\ useRegistry = TRUE
  /\ ExecIdle
  /\ GraphIdle

NextCodec ==
  \/ IsCacheableCall /\ CallUnchanged /\ UNCHANGED graphVars
  \/ SerializeCall /\ CallUnchanged /\ UNCHANGED graphVars
  \/ DeserializeCall /\ CallUnchanged /\ UNCHANGED graphVars

SpecCodec == InitCodec /\ [][NextCodec]_vars

(***************************************************************************)
(* min and max on their own: params {a: min(n1, n2), b: max(n1, n2)} and   *)
(* the same with the operands named in the other order, resolved against   *)
(* the same two dependency values.                                         *)
(***************************************************************************)
Operands ==
  {NoneV, BoolV(TRUE), IntV(1), IntV(2), StrV("1"), StrV("a"), IntegerV(1),
   IntegerV(2), DecimalV("1"), DecimalV("1.0"), DecimalV("2")}

MinMaxParams(x, y) ==
  [k \in {"a", "b"} |-> IF k = "a" THEN Cel("min", x, y) ELSE Cel("max", x, y)]

Comparisons ==
  {[fn |-> "min_max", done |-> FALSE,
    dependencies |-> [d \in {"n1", "n2"} |-> IF d = "n1" THEN x ELSE y],
    r |-> [ok |-> FALSE, err |-> "", m |-> EmptyManifest],
    swapped |-> [ok |-> FALSE, err |-> "", m |-> EmptyManifest]] :
     x \in Operands, y \in Operands}

MinMaxCall ==
  /\ call.fn = "min_max"
  /\ ~call.done
  /\ call' = [call EXCEPT
                !.done = TRUE,
                !.r = resolve_params(MinMaxParams("n1", "n2"), call.dependencies),
                !.swapped = resolve_params(MinMaxParams("n2", "n1"), call.dependencies)]

InitMinMax ==
  /\ call \in Comparisons
  /\ registry = NoRegistry
  /\ last = NoCall
  /\ mem = NoMem
  /\ disk = NoDisk
  /\ useRegistry = TRUE
  /\ ExecIdle
  /\ GraphIdle

NextMinMax == MinMaxCall /\ CallUnchanged /\ UNCHANGED graphVars

SpecMinMax == InitMinMax /\ [][NextMinMax]_vars

(***************************************************************************)
(* deserialize on its own, applied to byte strings that the encoder        *)
(* writes, to each of their proper prefixes, to an encoding followed by    *)
(* more bytes, and to strings the encoder never writes: an unknown tag, a  *)
(* bool byte other than 0 and 1, a decimal that is no numeral, a dict      *)
(* whose keys are not in sorted order or repeat.                           *)
(***************************************************************************)
Encodings ==
  {serialize(v).data : v \in {x \in CodecValues(MaxDepth) : serialize(x).ok}}

Truncations(q) == {SubSeq(q, 1, n) : n \in 0..(Len(q) - 1)}

Extras == {<<Byte(0)>>, <<Tag("none")>>, <<Text("a")>>}

NeverWritten ==
  {<<Tag("xxxx"), Int64(<<0, 0, 0, 0>>)>>,
   <<Tag("bool"), Byte(2)>>,
   <<Tag("decm"), Length(1), Text("a")>>,
   <<Tag("dict"), Length(2), Length(1), Text("b"), Tag("none"),
     Length(1), Text("a"), Tag("none")>>,
   <<Tag("dict"), Length(2), Length(1), Text("a"), Tag("none"),
     Length(1), Text("a"), Tag("bool"), Byte(1)>>}

ByteStrings ==
  Encodings
    \cup UNION {Truncations(q) : q \in Encodings}
    \cup {q \o x : q \in Encodings, x \in Extras}
    \cup NeverWritten

Decodings ==
  {[fn |-> "deserialize", data |-> q, done |-> FALSE, r |-> Fail("")] : q \in ByteStrings}

DecodeCall ==
  /\ call.fn = "deserialize"
  /\ ~call.done
  /\ call' = [call EXCEPT !.done = TRUE, !.r = deserialize(call.data)]

InitDecode ==
  /\ call \in Decodings
  /\ registry = NoRegistry
  /\ last = NoCall
  /\ mem = NoMem
  /\ disk = NoDisk
  /\ useRegistry = TRUE
  /\ ExecIdle
  /\ GraphIdle

NextDecode == DecodeCall /\ CallUnchanged /\ UNCHANGED graphVars

SpecDecode == InitDecode /\ [][NextDecode]_vars

(***************************************************************************)
(* Properties of the resolver (checked under SpecGraph).                   *)
(***************************************************************************)
(* The in-graph edges contain a cycle iff some non-empty set of vertices   *)
(* has, for each member, a dep inside the set.                             *)
Cyclic(g) ==
  \E C \in (SUBSET DOMAIN g) \ {{}} : \A n \in C : deps_set(g[n]) \cap C # {}

MissingDep(g, context_keys) ==
  \E n \in DOMAIN g : \E d \in deps_set(g[n]) : d \notin DOMAIN g /\ d \notin context_keys

UnregisteredOp(g) ==
  \E n \in DOMAIN g : g[n].kind = "node" /\ g[n].op_name \notin Registered

Pos(q, x) == CHOOSE k \in 1..Len(q) : q[k] = x

(* The graph with every dep that is not a vertex id removed. *)
InGraphOnly(g) == [n \in DOMAIN g |-> [g[n] EXCEPT !.deps = graph_deps(g, n)]]

(* C6: on an acyclic graph topological_sort returns every vertex id        *)
(* exactly once, each in-graph dep before its dependent; deps that are not *)
(* vertex ids change nothing: the result is that of the graph without them.*)
C6_TopologicalOrder ==
  (gphase = "sorted" /\ ~Cyclic(gdeps)) =>
    /\ gsort.ok
    /\ Len(gsort.result) = Cardinality(DOMAIN gdeps)
    /\ \A n \in DOMAIN gdeps : \E k \in 1..Len(gsort.result) : gsort.result[k] = n
    /\ \A n \in DOMAIN gdeps : \A d \in deps_set(gdeps[n]) \cap DOMAIN gdeps :
         Pos(gsort.result, d) < Pos(gsort.result, n)
    /\ gsort = topological_sort(InGraphOnly(gdeps), giter)

C6_Witness ==
  /\ gphase = "sorted"
  /\ ~Cyclic(gdeps)
  /\ gsort.ok
  /\ gdeps["n1"].deps = <<"n3", "x">>
  /\ gdeps["n2"].deps = <<"n1", "n3">>
  /\ gdeps["n3"].deps = <<"x">>
  /\ gsort.result = <<"n3", "n1", "n2">>

(* C7 as stated: validate raises the cycle error iff the in-graph edges    *)
(* contain a cycle.                                                        *)
C7_Original ==
  gphase = "validated" => (gvalid = "cycle" <=> Cyclic(gdeps))

(* C7 amended: _has_cycle returns true iff the in-graph edges contain a    *)
(* cycle (self-loops included, deps on context keys never counted), and    *)
(* validate raises the cycle error iff there is such a cycle and the two   *)
(* earlier checks (missing dep, unregistered op) have passed.              *)
C7_CycleDetection ==
  /\ gphase = "cycle" => (gcycle <=> Cyclic(gdeps))
  /\ gphase = "validated" =>
       (gvalid = "cycle" <=>
          /\ Cyclic(gdeps)
          /\ ~MissingDep(gdeps, gctx)
          /\ ~(useRegistry /\ UnregisteredOp(gdeps)))

C7_Witness ==
  /\ gphase = "validated"
  /\ gvalid = "cycle"
  /\ gctx = {"x"}
  /\ gdeps["n1"].deps = <<"x">>
  /\ gdeps["n2"].deps = <<"n3", "x">>
  /\ gdeps["n3"].deps = <<"n2">>

(* C26: validate raises the missing-dependency error iff some vertex       *)
(* declares a dep that is neither a vertex id nor a supplied context key;  *)
(* a dep that names a context key is accepted.                             *)
C26_MissingDependency ==
  gphase = "validated" => (gvalid = "missing_dep" <=> MissingDep(gdeps, gctx))

(* A graph with a dep on the context key "x" that validates. *)
C26_Witness ==
  /\ gphase = "validated"
  /\ gvalid = "ok"
  /\ "x" \in gctx
  /\ \E n \in DOMAIN gdeps : "x" \in deps_set(gdeps[n])

(***************************************************************************)
(* Properties of the executor (checked under Spec).                        *)
(***************************************************************************)
E(k) == events[k].e
R(k) == events[k].run

RetainingStore == store.kind \in {"memory", "disk", "chain"}
CountingStore == store.kind \in {"memory", "chain"}

(* The resolved params of a processed vertex: its manifest at the keys of  *)
(* the vertex's params.                                                    *)
ResolvedParams(k) ==
  [p \in DOMAIN E(k).manifest \cap DOMAIN graph[E(k).node].params |-> E(k).manifest[p]]

SameWork(j, k) ==
  /\ E(j).has_manifest /\ E(k).has_manifest
  /\ E(j).op_name = E(k).op_name
  /\ ResolvedParams(j) = ResolvedParams(k)

C2_OneInvocation ==
  (RetainingStore /\ run = 1) =>
    /\ \A k \in DOMAIN events :
         E(k).bound =>
           IF \E j \in 1..(k - 1) : SameWork(j, k)
           THEN E(k).hit /\ ~E(k).called /\ ~E(k).put_called
           ELSE ~E(k).hit /\ E(k).called /\ E(k).put_called
    /\ CountingStore =>
         /\ store.stats.hits = Cardinality({k \in DOMAIN events : E(k).hit})
         /\ store.stats.misses =
              Cardinality({k \in DOMAIN events : E(k).exists_called /\ ~E(k).hit})
         /\ store.stats.puts =
              Cardinality({k \in DOMAIN events : E(k).put_called /\ E(k).bound})

(* The run of the same graph, context and order by an executor over a      *)
(* NullStore: every vertex is computed by its operation.                   *)
RECURSIVE null_run(_, _, _, _)
null_run(g, sorted, k, artifacts) ==
  IF k > Len(sorted) THEN [ok |-> TRUE, artifacts |-> artifacts]
  ELSE LET r == process_vertex(sorted[k], g[sorted[k]], artifacts, NewStore("null"), FALSE)
       IN IF ~r.ok THEN [ok |-> FALSE, artifacts |-> artifacts]
          ELSE null_run(g, sorted, k + 1, r.artifacts)

(* C3: a cache hit yields the value the operation returns for the vertex's *)
(* manifest, and the table a completed run returns is the table of the     *)
(* NullStore run.                                                          *)
C3_Transparent ==
  /\ \A k \in DOMAIN events :
       (E(k).hit /\ E(k).bound) =>
         /\ _invoke_op(E(k).op_name, E(k).manifest).ok
         /\ _invoke_op(E(k).op_name, E(k).manifest).v = E(k).artifact
  /\ pc = "done" =>
       /\ null_run(graph, sorted_nodes, 1, context).ok
       /\ null_run(graph, sorted_nodes, 1, context).artifacts = artifacts_by_node

C5_NoCacheBypass ==
  \A k \in DOMAIN events :
    ~graph[E(k).node].cache =>
      /\ ~E(k).get_called
      /\ ~E(k).put_called
      /\ E(k).bound => E(k).called

InvalidGraph ==
  \/ MissingDep(graph, DOMAIN context)
  \/ UnregisteredOp(graph)
  \/ Cyclic(graph)

Untouched == events = <<>> /\ store = NewStore(store.kind)

(* C8 as stated: on an invalid graph execute raises before any operation   *)
(* or store call.                                                          *)
C8_Original ==
  InvalidGraph => Untouched /\ pc \in {"idle", "error"}

(* C8 amended: the same, an unregistered op_name counting as invalid only  *)
(* when the executor's resolver was built with the registry (as the        *)
(* default resolver is).                                                   *)
C8_ValidationFirst ==
  (\/ MissingDep(graph, DOMAIN context)
   \/ Cyclic(graph)
   \/ (useRegistry /\ UnregisteredOp(graph))) =>
    /\ Untouched
    /\ pc \in {"idle", "error"}
    /\ pc = "error" => err \in {"missing_dep", "unregistered_op", "attribute_error", "cycle"}

C8_Witness ==
  /\ pc = "error" /\ err = "cycle" /\ run = 2
  /\ store = NewStore("disk")
  /\ events = <<>>

Failed(k) == E(k).err # ""

AbortsRun(k) ==
  /\ ~E(k).bound
  /\ \A j \in DOMAIN events : j > k => R(j) > R(k)
  /\ \A j \in DOMAIN events : (j # k /\ R(j) = R(k)) => E(j).node # E(k).node
  /\ (k = Len(events) /\ R(k) = run) =>
       pc = "error" /\ E(k).node \notin DOMAIN artifacts_by_node

C11_Injective ==
  \A j, k \in DOMAIN events :
    (E(j).has_digest /\ E(k).has_digest /\ E(j).manifest # E(k).manifest) =>
      E(j).digest # E(k).digest

(* What a subgraph vertex yields: its params are resolved against the      *)
(* parent table, the inner graph runs with them as its context and the     *)
(* artifact of the output vertex is the result.                            *)
SubgraphResult(node, artifacts) ==
  LET mf == _build_manifest(node, artifacts)
      r == process_vertex(node.output, node.graph[node.output], mf.m,
                          NewStore("null"), FALSE)
  IN IF mf.ok /\ r.ok THEN Ok(r.artifacts[node.output]) ELSE Fail("subgraph_failed")

(* The run of the graph in which ordinary vertices are computed by their   *)
(* operations and subgraph vertices yield SubgraphResult.                  *)
RECURSIVE subgraph_run(_, _, _, _)
subgraph_run(g, sorted, k, artifacts) ==
  IF k > Len(sorted) THEN [ok |-> TRUE, artifacts |-> artifacts]
  ELSE LET n == sorted[k]
           r == IF g[n].kind = "subgraph"
                THEN LET x == SubgraphResult(g[n], artifacts)
                     IN [ok |-> x.ok, artifacts |-> Bind(artifacts, n, x.v)]
                ELSE process_vertex(n, g[n], artifacts, NewStore("null"), FALSE)
       IN IF ~r.ok THEN [ok |-> FALSE, artifacts |-> artifacts]
          ELSE subgraph_run(g, sorted, k + 1, r.artifacts)

HasSubgraph == \E n \in DOMAIN graph : graph[n].kind = "subgraph"

(* C12: executing a graph with a subgraph vertex, over a NullStore, whose  *)
(* vertices all succeed completes, and binds the subgraph vertex to the    *)
(* output artifact of its inner graph run with the resolved params as      *)
(* context.                                                                *)
C12_SubgraphExecution ==
  (/\ HasSubgraph
   /\ store.kind = "null"
   /\ pc \in {"done", "error"}
   /\ ~MissingDep(graph, DOMAIN context)
   /\ ~Cyclic(graph)
   /\ \A k \in DOMAIN context : is_cacheable(context[k])
   /\ subgraph_run(graph, topological_sort(graph, order).result, 1, context).ok) =>
    /\ pc = "done"
    /\ artifacts_by_node =
         subgraph_run(graph, topological_sort(graph, order).result, 1, context).artifacts

(***************************************************************************)
(* Properties of the stores (checked under SpecStore).                     *)
(***************************************************************************)
LastKey == Key(last.op_name, last.digest)
LastPath == _get_path(last.op_name, last.digest)

C16_PutGetRoundTrip ==
  last.call = "put" =>
    /\ last.ok
    /\ store_exists(store, last.op_name, last.digest).res
    /\ store_get(store, last.op_name, last.digest, FALSE).r = Ok(last.v)

C18_KeyedByPair ==
  last.call = "put" =>
    \A op2 \in StoreOps \ {last.op_name} :
      /\ store_exists(store, op2, last.digest).res
           = store_exists(last.pre, op2, last.digest).res
      /\ store_get(store, op2, last.digest, FALSE).r
           = store_get(last.pre, op2, last.digest, FALSE).r

(***************************************************************************)
(* Properties of the bounded MemoryStore (checked under SpecMemory).       *)
(***************************************************************************)
LastMemKey == <<last.op_name, last.digest>>
Evicted == DOMAIN last.pre.data \ DOMAIN mem.data
Evicting ==
  /\ last.call = "put"
  /\ LastMemKey \notin DOMAIN last.pre.data
  /\ Cardinality(DOMAIN last.pre.data) = mem.max_size

Complete(f) == \E v \in DiskValues \cup {IntegerV(0 - 1)} : v.t = "icac" /\ f = encode_file(v)

(* C21: a get that runs while puts of the same key are in progress either  *)
(* finds the key absent or reads one complete encoding; it never reads a   *)
(* partially written file.                                                 *)
C21_AtomicForReaders ==
  /\ disk.rd.r.err # "value_error"
  /\ path_exists(disk) => Complete(disk.inodes[disk.names.path])

(* C22: concurrent puts of one key race harmlessly: under every            *)
(* interleaving of their open, write and rename steps each call returns    *)
(* without error and, once all have returned, the file holds one complete  *)
(* encoding.                                                               *)
C22_HarmlessRace ==
  /\ \A t \in Writers : disk.w[t].err # "file_not_found"
  /\ (\A t \in Writers : disk.w[t].pc \in {"idle", "done"} /\ path_exists(disk))
       => Complete(disk.inodes[disk.names.path])

(***************************************************************************)
(* Properties of the executor's start (checked under Spec).                *)
(***************************************************************************)
UncacheableContext == \E k \in DOMAIN context : ~is_cacheable(context[k])
Started == pc \in {"running", "done", "error"}

(* C27 as stated: with a context value that is not cacheable execute fails *)
(* with the context-not-cacheable error, with no operation invoked and no  *)
(* store method called.                                                    *)
C27_Original ==
  (UncacheableContext /\ Started) =>
    pc = "error" /\ err = "context_not_cacheable" /\ Untouched

(* C27 amended: with a context value that is not cacheable execute fails   *)
(* with no operation invoked and no store method called; the error is the  *)
(* context-not-cacheable error when the graph resolves, and the resolver's *)
(* error otherwise.  With a cacheable context every context key is bound   *)
(* in the artifact table when the first vertex is processed, and stays so. *)
C27_ContextChecked ==
  /\ (UncacheableContext /\ Started) =>
       /\ pc = "error"
       /\ Untouched
       /\ artifacts_by_node = NoContext
       /\ err = IF resolve(graph, DOMAIN context, useRegistry, order).ok
                THEN "context_not_cacheable"
                ELSE resolve(graph, DOMAIN context, useRegistry, order).err
  /\ (~UncacheableContext /\ pc \in {"running", "done"}) =>
       \A k \in DOMAIN context :
         k \in DOMAIN artifacts_by_node /\ artifacts_by_node[k] = context[k]

(* A second run that failed on the float in its context, over a DiskStore. *)
C27_Witness ==
  /\ UncacheableContext
  /\ pc = "error" /\ err = "context_not_cacheable" /\ run = 2
  /\ store = NewStore("disk")

(***************************************************************************)
(* Properties of NullStore (checked under SpecNull).                       *)
(***************************************************************************)
(* C23: after any sequence of put, exists and get calls on a NullStore,    *)
(* exists returns false and get raises not-found for every key, and an     *)
(* executor over it invokes the operation of every vertex it processes, on *)
(* every run: a run that returns has called the operation of each vertex.  *)
C23_NullStore ==
  store.kind = "null" =>
    /\ last.call = "exists" => ~last.res
    /\ last.call = "get" => last.r = Fail("not_found")
    /\ \A op_name \in StoreOps \cup Registered, digest \in StoreDigests :
         /\ ~store_exists(store, op_name, digest).res
         /\ store_get(store, op_name, digest, FALSE).r = Fail("not_found")
    /\ \A k \in DOMAIN events :
         /\ ~E(k).hit /\ ~E(k).get_called
         /\ (E(k).exists_called /\ E(k).op_name \in Registered) => E(k).invoked
    /\ pc = "done" =>
         \A n \in DOMAIN graph :
           \E k \in DOMAIN events : R(k) = run /\ E(k).node = n /\ E(k).called

(* A second run over a NullStore that was put to directly and by the first *)
(* run, and that invoked its vertex again.                                 *)
C23_Witness ==
  /\ store.kind = "null"
  /\ run = 2 /\ pc = "done"
  /\ last.call = "get" /\ last.n >= 3
  /\ \E j, k \in DOMAIN events :
       /\ R(j) = 1 /\ R(k) = 2 /\ E(j).node = E(k).node
       /\ E(j).put_called /\ E(j).bound
       /\ E(k).called /\ E(k).bound /\ E(k).digest = E(j).digest

(***************************************************************************)
(* Properties of OpRegistry (checked under SpecRegistry).                  *)
(***************************************************************************)
(* C24: register_package is atomic: when some resulting full name is       *)
(* already bound the call fails and leaves the registry exactly as it was. *)
C24_PackageAtomic ==
  (/\ registry.call = "register_package"
   /\ \E k \in DOMAIN registry.ops :
        full_name(registry.prefix, registry.ops[k][1]) \in DOMAIN registry.pre)
    => (~registry.ok /\ registry._ops = registry.pre)

(***************************************************************************)
(* Properties of vertex construction (checked under SpecNode).             *)
(***************************************************************************)
(* The ref markers that occur anywhere in a param value. *)
RECURSIVE RefsAnywhere(_)
RefsAnywhere(value) ==
  IF value.k = "ref" THEN {value.dep}
  ELSE IF value.k \in Containers
  THEN UNION {RefsAnywhere(value.elems[i]) : i \in DOMAIN value.elems}
  ELSE {}

Undeclared(node) ==
  UNION {RefsAnywhere(node.params[k]) : k \in DOMAIN node.params} \ deps_set(node)

(* C25: constructing a Node or SubGraphNode succeeds only if every ref     *)
(* marker at any nesting depth of its params names a member of its deps;   *)
(* with an undeclared ref the construction fails.                          *)
C25_RefsDeclared ==
  (call.fn = "construct" /\ call.done) =>
    /\ call.r.ok => Undeclared(call.node) = {}
    /\ Undeclared(call.node) # {} => ~call.r.ok

(***************************************************************************)
(* Properties of _invoke_op (checked under SpecInvoke).                    *)
(***************************************************************************)
Declared(sig) == {sig[k].name : k \in {j \in 1..Len(sig) : ~sig[j].var_kw}}
Required(sig) == {sig[k].name : k \in {j \in 1..Len(sig) : ~sig[j].var_kw /\ ~sig[j].has_default}}
Variadic(sig) == \E k \in 1..Len(sig) : sig[k].var_kw

(* C28: the operation is called with exactly the declared parameters that  *)
(* are manifest keys, bound to the manifest's values, plus every remaining *)
(* manifest key when the operation has a variadic-by-name parameter; a     *)
(* parameter with a default may be absent; a required parameter absent     *)
(* from the manifest gives the missing-parameter error and no call.        *)
C28_KeywordDispatch ==
  (call.fn = "_invoke_op" /\ call.done) =>
    IF Required(call.sig) \subseteq DOMAIN call.manifest
    THEN /\ call.called
         /\ DOMAIN call.kwargs =
              (Declared(call.sig) \cap DOMAIN call.manifest)
                \cup (IF Variadic(call.sig) THEN DOMAIN call.manifest ELSE {})
         /\ \A k \in DOMAIN call.kwargs : call.kwargs[k] = call.manifest[k]
    ELSE ~call.called /\ call.r = Fail("missing_param")

(* A call that leaves out a manifest key the operation does not declare    *)
(* and a parameter that has a default.                                     *)
C28_Witness ==
  /\ call.fn = "_invoke_op" /\ call.done /\ call.called
  /\ ~Variadic(call.sig)
  /\ DOMAIN call.manifest \ DOMAIN call.kwargs # {}
  /\ Declared(call.sig) \ DOMAIN call.manifest # {}
  /\ DOMAIN call.kwargs # {}


(***************************************************************************)
(* Properties of the codec and of the cacheability predicate (checked      *)
(* under SpecCodec).                                                       *)
(***************************************************************************)
(* C29: for every cacheable value v (None, bool, int, str, Decimal, and    *)
(* dicts, lists and tuples of them), serialize(v) succeeds and             *)
(* deserialize(serialize(v)) is equal to v and of the same type.           *)
C29_RoundTrip ==
  (call.fn = "codec" /\ is_cacheable(call.v))
    => /\ call.encoded => call.enc.ok
       /\ call.decoded => call.r.ok /\ call.r.v = call.v

(* The same for values whose ints all fit in signed 64 bits. *)
RoundTripInt64 ==
  (call.fn = "codec" /\ is_cacheable(call.v) /\ ints_fit(call.v))
    => /\ call.encoded => call.enc.ok
       /\ call.decoded => call.r.ok /\ call.r.v = call.v


(***************************************************************************)
(* Float exclusion (checked under SpecFloat).                              *)
(***************************************************************************)
RECURSIVE HasFloat(_)
HasFloat(v) ==
  CASE v.t = "float" -> TRUE
    [] v.t = "dict" -> \E k \in DOMAIN v.m : HasFloat(v.m[k])
    [] v.t \in {"list", "tuple"} -> \E k \in DOMAIN v.elems : HasFloat(v.elems[k])
    [] OTHER -> FALSE

(* A vertex that brings a float in: as a literal param, as the result of   *)
(* an expression, or as the return value of its operation.                 *)
FloatSource(node) ==
  \/ \E k \in DOMAIN node.params :
        \/ node.params[k].k = "lit" /\ HasFloat(node.params[k].v)
        \/ node.params[k].k = "cel" /\ node.params[k].e.f \in {"double", "list_double"}
  \/ node.op_name \in {"half", "halves"}

FloatSomewhere ==
  \/ \E k \in DOMAIN context : HasFloat(context[k])
  \/ \E n \in DOMAIN graph : FloatSource(graph[n])

(* C30: is_cacheable is false for a float at any nesting depth of dicts,   *)
(* lists and tuples; and a float in a context value, a resolved manifest,  *)
(* an expression result or an operation's return value makes execute fail: *)
(* no manifest holding a float is fingerprinted, no float is stored, none  *)
(* is bound in the table, and the run does not return.                     *)
C30_FloatExclusion ==
  /\ \A v \in CodecValues(MaxDepth) : HasFloat(v) => ~is_cacheable(v)
  /\ \A k \in 1..Len(events) :
        events[k].e.has_digest
          => \A p \in DOMAIN events[k].e.manifest : ~HasFloat(events[k].e.manifest[p])
  /\ \A k \in DOMAIN store.l1 : ~HasFloat(store.l1[k])
  /\ \A n \in DOMAIN artifacts_by_node : ~HasFloat(artifacts_by_node[n])
  /\ FloatSomewhere => pc # "done"

C30_Witness ==
  /\ pc = "error"
  /\ err = "not_cacheable"
  /\ events # <<>>
  /\ events[Len(events)].e.op_name = "halves"
  /\ events[Len(events)].e.called
  /\ ~events[Len(events)].e.put_called
  /\ \E n \in DOMAIN artifacts_by_node : artifacts_by_node[n] = IntV(1)


(***************************************************************************)
(* Properties of the run's artifact table (checked under Spec).            *)
(***************************************************************************)
(* C31: when the executor starts processing a vertex, every name in that   *)
(* vertex's deps is bound in the run's artifact table, and no run ends     *)
(* with the 'artifact not found' error of _build_manifest.                 *)
C31_DepsBound ==
  /\ (pc = "running" /\ idx <= Len(sorted_nodes))
       => deps_set(graph[sorted_nodes[idx]]) \subseteq DOMAIN artifacts_by_node
  /\ err # "artifact_not_found"
  /\ \A k \in 1..Len(events) : events[k].e.err # "artifact_not_found"

C31_Witness ==
  /\ pc = "running"
  /\ idx = 2
  /\ sorted_nodes[idx] = "n1"
  /\ deps_set(graph["n1"]) = {"n2"}
  /\ "n2" \in DOMAIN artifacts_by_node


(***************************************************************************)
(* Stats accounting (checked under Spec).  The store is used by the        *)
(* executor only, so its counters are compared with the events of all the  *)
(* runs so far; a run's share of each counter is the count over the run's  *)
(* own events.                                                             *)
(***************************************************************************)
KeepsStats == store.kind \in {"memory", "chain"}
AllCached == \A n \in DOMAIN graph : graph[n].cache
RunEvents(r) == {k \in 1..Len(events) : events[k].run = r}
Hits(K) == Cardinality({k \in K : events[k].e.exists_called /\ events[k].e.hit})
Misses(K) == Cardinality({k \in K : events[k].e.exists_called /\ ~events[k].e.hit})
Puts(K) == Cardinality({k \in K : events[k].e.put_called /\ events[k].e.bound})
OpCalls(K) == Cardinality({k \in K : events[k].e.called})

RECURSIVE HasMarker(_)
HasMarker(v) ==
  CASE v.t = "marker" -> TRUE
    [] v.t = "dict" -> \E k \in DOMAIN v.m : HasMarker(v.m[k])
    [] v.t \in {"list", "tuple"} -> \E k \in DOMAIN v.elems : HasMarker(v.elems[k])
    [] OTHER -> FALSE

RECURSIVE HasTuple(_)
HasTuple(pv) ==
  CASE pv.k = "tuple" -> TRUE
    [] pv.k \in {"dict", "list"} -> \E k \in DOMAIN pv.elems : HasTuple(pv.elems[k])
    [] OTHER -> FALSE

(* C33: after resolve_params has succeeded, the manifest holds no ref or   *)
(* cel marker at any nesting depth of dicts, lists and tuples.             *)
C33_NoMarkerInManifest ==
  (call.fn = "resolve_params" /\ call.done /\ call.r.ok)
    => \A k \in DOMAIN call.r.m : ~HasMarker(call.r.m[k])

(* The same for params that hold no tuple. *)
NoMarkerWithoutTuples ==
  (call.fn = "resolve_params" /\ call.done /\ call.r.ok
     /\ \A k \in DOMAIN call.params : ~HasTuple(call.params[k]))
    => \A k \in DOMAIN call.r.m : ~HasMarker(call.r.m[k])


(***************************************************************************)
(* Properties of the decoder (checked under SpecDecode).                   *)
(***************************************************************************)
(* Whether some cacheable value is encoded as the byte string: by the      *)
(* round trip, that value is the one the decoder returns.                  *)
Canonical(data, v) == is_cacheable(v) /\ serialize(v).ok /\ serialize(v).data = data

(* C34: deserialize accepts a byte string only if it equals serialize(v)   *)
(* for some cacheable v, and every other input fails with the corrupt-data *)
(* error (ValueError).                                                     *)
C34_StrictDecoder ==
  (call.fn = "deserialize" /\ call.done)
    => /\ call.r.ok => Canonical(call.data, call.r.v)
       /\ ~call.r.ok => call.r.err = "value_error"

(* What does hold: every encoding is accepted, and every proper prefix of  *)
(* an encoding is rejected with ValueError.                                *)
EncodingsAccepted ==
  (call.fn = "deserialize" /\ call.done /\ call.data \in Encodings) => call.r.ok

PrefixesRejected ==
  (call.fn = "deserialize" /\ call.done
     /\ \E q \in Encodings : call.data \in Truncations(q))
    => ~call.r.ok /\ call.r.err = "value_error"


(***************************************************************************)
(* Properties of min and max (checked under SpecMinMax).                   *)
(***************************************************************************)
(* C35: min(a, b) = min(b, a) and max(a, b) = max(b, a) for comparable     *)
(* arguments, composite values included, so the params resolve to the same *)
(* manifest whichever order the operands are named in (and an order fails  *)
(* only if the other does).                                                *)
C35_MinMaxCommutative ==
  (call.fn = "min_max" /\ call.done)
    => /\ call.r.ok = call.swapped.ok
       /\ call.r.ok => call.r.m = call.swapped.m

(* The same for operands that are not two different values of one rank. *)
Tied(x, y) ==
  /\ x # y
  /\ Comparable(_extract_comparison_value(_value_to_cel(x)),
                _extract_comparison_value(_value_to_cel(y)))
  /\ ~Less(_extract_comparison_value(_value_to_cel(x)),
           _extract_comparison_value(_value_to_cel(y)))
  /\ ~Less(_extract_comparison_value(_value_to_cel(y)),
           _extract_comparison_value(_value_to_cel(x)))

CommutativeUntied ==
  (call.fn = "min_max" /\ call.done
     /\ ~Tied(call.dependencies["n1"], call.dependencies["n2"]))
    => /\ call.r.ok = call.swapped.ok
       /\ call.r.ok => call.r.m = call.swapped.m
       /\ call.r.ok => hash_manifest(call.r.m) = hash_manifest(call.swapped.m)


(***************************************************************************)
(* Agreement of the two cycle detectors (checked under SpecGraph).         *)
(***************************************************************************)
(* C36: topological_sort raises its cycle error exactly when _has_cycle    *)
(* returns true, whatever order the vertex set is iterated in; and when    *)
(* validate has succeeded, topological_sort does not raise and returns     *)
(* every vertex.                                                           *)
C36_DetectorsAgree ==
  /\ gphase = "sorted"
       => \A iter \in Perms(DOMAIN gdeps) :
            (~gsort.ok /\ gsort.err = "cycle_sort") <=> _has_cycle(gdeps, iter)
  /\ gphase = "cycle"
       => \A iter \in Perms(DOMAIN gdeps) :
            gcycle <=> ~topological_sort(gdeps, iter).ok
  /\ (gphase = "validated" /\ gvalid = "ok")
       => \A iter \in Perms(DOMAIN gdeps) :
            /\ topological_sort(gdeps, iter).ok
            /\ {topological_sort(gdeps, iter).result[k] :
                  k \in 1..Len(topological_sort(gdeps, iter).result)} = DOMAIN gdeps
            /\ Len(topological_sort(gdeps, iter).result) = Cardinality(DOMAIN gdeps)

C36_Witness ==
  /\ gphase = "sorted"
  /\ ~gsort.ok
  /\ gsort.result = <<"n3">>
  /\ gdeps["n1"].deps = <<"n2", "x">>
  /\ gdeps["n2"].deps = <<"n1">>
  /\ _has_cycle(gdeps, giter)


(***************************************************************************)
(* The tiers of a ChainStore (checked under SpecChain).                    *)
(***************************************************************************)
L1WithinL2(st) ==
  \A op_name \in StoreOps, digest \in StoreDigests :
    memory_exists(st.l1, op_name, digest) => disk_exists(st.l2, op_name, digest)

L1WithinL2UnlessPutFails ==
  [][(L1WithinL2(store) /\ ~(last'.call = "put" /\ ~last'.ok)) => L1WithinL2(store')]_vars

(* A put of a domain value whose L2 write fails has left the entry in L1. *)
FailedPutLeavesL1 ==
  /\ last.call = "put"
  /\ last.v.t = "icac"
  /\ ~last.ok
  /\ L1WithinL2(last.pre)
  /\ ~L1WithinL2(store)

(* A get that finds the entry in L2 only promotes it, keeping L1 within L2. *)
PromotionReached ==
  /\ last.call = "get"
  /\ Key(last.op_name, last.digest) \in last.promoted \ last.before
  /\ L1WithinL2(store)


(***************************************************************************)
(* Termination of execute (checked under SpecExecute).                     *)
(***************************************************************************)
Valid == resolve(graph, DOMAIN context, useRegistry, order).ok
Processed == {events[k].e.node : k \in RunEvents(run)}
AtMostOnce ==
  \A j, k \in RunEvents(run) : events[j].e.node = events[k].e.node => j = k
EveryVertexOnce ==
  /\ AtMostOnce
  /\ Processed = DOMAIN graph
  /\ \A k \in RunEvents(run) : events[k].e.exists_called /\ events[k].e.bound
  /\ DOMAIN graph \subseteq DOMAIN artifacts_by_node

(* C38 as stated: whenever the graph is valid, the execute call ends by    *)
(* returning a table, every vertex processed exactly once.                 *)
C38_Original ==
  (Valid /\ pc \in {"done", "error"}) => (pc = "done" /\ EveryVertexOnce)

(* C38: a call of execute ends, by returning or by raising; no vertex is   *)
(* processed twice in one call (so at most one exists call and one         *)
(* invocation per vertex); and a call that returns has processed every     *)
(* vertex exactly once, with one exists call each, and its table binds     *)
(* every vertex id.                                                        *)
C38_Terminates ==
  /\ [](AtMostOnce /\ (pc = "done" => EveryVertexOnce))
  /\ (pc = "idle") ~> (pc \in {"done", "error"})

C38_Witness ==
  /\ pc = "done"
  /\ run = 2
  /\ Cardinality(RunEvents(2)) = 3
  /\ OpCalls(RunEvents(2)) = 1
  /\ Hits(RunEvents(2)) = 2
  /\ EveryVertexOnce


(***************************************************************************)
(* A name that is both a context key and a vertex id (checked under        *)
(* SpecShadow).                                                            *)
(***************************************************************************)
Shadowed == DOMAIN context \cap DOMAIN graph
Position(n) == CHOOSE k \in 1..Len(sorted_nodes) : sorted_nodes[k] = n
BoundAt(d) == {k \in RunEvents(run) : events[k].e.node = d /\ events[k].e.bound}
ArtifactOf(d) == events[CHOOSE k \in BoundAt(d) : TRUE].e.artifact

(* C39: the name counts as an edge of the graph for cycle detection and    *)
(* for the order; a vertex that declares it as a dep is processed after    *)
(* the vertex of that name and resolves a ref to the name to that          *)
(* vertex's artifact, not to the context value; and the returned table     *)
(* binds the name to the vertex's artifact.                                *)
C39_VertexShadowsContext ==
  /\ _has_cycle(graph, order) => pc \in {"idle", "error"}
  /\ pc \in {"running", "done"}
       => \A m \in DOMAIN graph : \A d \in deps_set(graph[m]) \cap Shadowed :
            Position(d) < Position(m)
  /\ (pc = "running" /\ idx <= Len(sorted_nodes))
       => \A d \in deps_set(graph[sorted_nodes[idx]]) \cap Shadowed :
            /\ BoundAt(d) # {}
            /\ artifacts_by_node[d] = ArtifactOf(d)
            /\ artifacts_by_node[d] # context[d]
  /\ \A k \in RunEvents(run) :
       \A d \in deps_set(graph[events[k].e.node]) \cap Shadowed :
         /\ \E j \in BoundAt(d) : j < k
         /\ \A p \in DOMAIN graph[events[k].e.node].params :
              (events[k].e.has_manifest
                 /\ graph[events[k].e.node].params[p] = Ref(d))
                => /\ events[k].e.manifest[p] = ArtifactOf(d)
                   /\ events[k].e.manifest[p] # context[d]
  /\ pc = "done"
       => \A d \in Shadowed :
            /\ BoundAt(d) # {}
            /\ artifacts_by_node[d] = ArtifactOf(d)
            /\ artifacts_by_node[d] # context[d]

(* A cycle through the name is an error although the context has the name. *)
ShadowedCycle ==
  /\ pc = "error"
  /\ err = "cycle"
  /\ "n1" \in Shadowed
  /\ graph["n1"].deps = <<"n2">>
  /\ graph["n2"].deps = <<"n1">>

C39_Witness ==
  /\ pc = "done"
  /\ context = [k \in {"n1"} |-> IntV(7)]
  /\ graph["n2"].params = Value(Ref("n1"))
  /\ graph["n1"].params = Value(Lit(StrV("1")))
  /\ artifacts_by_node["n1"] = StrV("1")
  /\ artifacts_by_node["n2"] = StrV("1")
  /\ \E k \in RunEvents(run) :
       events[k].e.node = "n2" /\ events[k].e.manifest = [p \in {"value"} |-> StrV("1")]

====
